---- MODULE Spec2Model ----
(***************************************************************************)
(* The incremental graph maintenance pipeline of canopy: the graph store   *)
(* (canopy-core/src/graph.rs, a wrapper of petgraph's StableDiGraph), the  *)
(* diff engine (canopy-core/src/diff.rs), the watcher service              *)
(* (canopy-watcher/src/watcher.rs), the token budget                       *)
(* (canopy-ai/src/budget.rs), the filesystem walk of `serve`               *)
(* (src/commands.rs) and the WebSocket connection handler                  *)
(* (canopy-server/src/websocket.rs).                                       *)
(*                                                                         *)
(* Confidences are f32 values in the code; the model holds them in         *)
(* hundredths (0.7 is 70, 1.0 is 100).  Option<T> is a sequence of length  *)
(* at most one: None is <<>>, Some(x) is <<x>>.  NodeId(n) / EdgeId(n) are *)
(* the natural number n; slot n of a vector is element n + 1 of the        *)
(* sequence that models it.                                                *)
(***************************************************************************)
EXTENDS Integers, Sequences, FiniteSets, TLC

VARIABLES
    graph,          \* WatcherService.graph / ServerState.graph
    file_to_nodes,  \* WatcherService.file_to_nodes : path -> Vec<NodeId>
    file_to_edges,  \* WatcherService.file_to_edges : path -> Vec<EdgeId>
    sequence,       \* WatcherService.diff_engine.sequence
    ai_provider,    \* WatcherService.ai_provider.is_some()
    budget,         \* the session's Budget (total_tokens, tokens_used)
    pc,             \* where process_events is: "idle", or "ai" inside perform_ai_analysis
    pending,        \* locals of handle_file_change while it awaits the provider
    panicked,       \* the updater task has panicked (StableGraph::add_edge)
    broadcast,      \* the messages the diff_tx channel retains, oldest first
    sent,           \* number of messages sent on diff_tx
    lastEvent,      \* the last watch event taken and what became of it
    client,         \* one WebSocket client: whether it is connected, and its copy of the graph
    event_rx,       \* FileWatcher.event_rx: the watch events sent and not yet taken
    notified,       \* the last filesystem notification: its path, whether a watch event
                    \* was sent for it, whether its coalescing window is still open
    diffOf,         \* the watch event the last diff sent was made for
    emitted,        \* every message sent on diff_tx while a connection is followed, oldest first
    graphCalls,     \* the calls made of a Graph of its own: the last one, and the ids
                    \* of the nodes and edges removed so far
    symtab,         \* a SymbolTable and the threads that call it
    extracted,      \* the events that arrived and were taken, counted, and for each path
                    \* the nodes extracted by the last event for it that was processed
    txn,            \* the graph lock, and where the updater is inside one update
    socket,         \* one connection of handle_socket: its receiver rx and what was sent to it
    pool,           \* ParserPool: live handles, the request channel, the receiver lock
    workers,        \* the parser worker threads
    callers         \* the callers of parse / parse_blocking and their reply channels

vars == <<graph, file_to_nodes, file_to_edges, sequence, ai_provider, budget, pc,
          pending, panicked, broadcast, sent, lastEvent, client,
          event_rx, notified, diffOf, emitted, graphCalls, symtab, extracted, txn, socket, pool, workers, callers>>

\* what the updater, the R1 client and the budget leave alone
otherVars == <<event_rx, notified, diffOf, emitted, graphCalls, symtab, extracted, txn, socket, pool, workers, callers>>

----------------------------------------------------------------------------
(* Bounds of the model *)

MaxUpdates == 3         \* events are taken while the diff sequence is below this
BroadcastCapacity == 1  \* messages the broadcast channel retains
MaxExtractNodes == 1    \* symbols one extraction yields
MaxExtractEdges == 1    \* import edges one extraction yields
MaxRelationships == 1   \* relationships in one provider answer
MaxAnswerId == 1        \* node ids a provider answer names are in 0..MaxAnswerId
MaxWalkFiles == 1       \* files the initial filesystem walk finds
PromptLength == 40      \* length of the prompt of one analysis request
MaxAnalysed == 2        \* functions of the largest file changed
MaxWorkers == 2         \* worker threads of the parser pool
MaxCallers == 2         \* parse requests made of the parser pool
MaxHandles == 2         \* ParserPool handles alive at once
MaxQueued == 1          \* watch events waiting in event_rx
MaxEventPaths == 1      \* paths of one filesystem notification
MaxStoreNodes == 3      \* node slots of the Graph called directly
MaxStoreEdges == 2      \* edge slots of the Graph called directly
MaxOrderQueued == 2     \* watch events waiting in event_rx when their order is followed
MaxArrivals == 3        \* watch events that arrive when their order is followed
MaxThreads == 2         \* threads that call the SymbolTable
MaxSymbolCalls == 3     \* calls made of the SymbolTable
MaxSymbolId == 1        \* node ids inserted are in 0..MaxSymbolId
MaxTableCalls == 4      \* calls one caller makes of the SymbolTable
MaxUses == 2            \* use_tokens calls made of the AIBudget
MaxConnectUpdates == 2  \* updates made while a client connects
MaxAncestorEdges == 3   \* edges of the graphs ancestors is called on

None == <<>>
Some(x) == <<x>>

\* a path is its file stem and its extension (Path::extension)
Root == [stem |-> ".", ext |-> None]
Paths == {[stem |-> "a", ext |-> Some("rs")],
          [stem |-> "b", ext |-> Some("py")],
          [stem |-> "readme", ext |-> Some("md")]}
NodeKinds == {"Function", "Struct"}
Confidences == {65, 75, 90}

Reverse(s) == [i \in 1..Len(s) |-> s[Len(s) + 1 - i]]

Range(s) == {s[i] : i \in 1..Len(s)}

\* the sequences without repetition, of length at most n, over the set S
RECURSIVE InjectiveSeqs(_, _)
InjectiveSeqs(S, n) ==
    IF n = 0 THEN {<<>>}
    ELSE LET shorter == InjectiveSeqs(S, n - 1)
         IN  shorter \cup UNION {{Append(s, x) : x \in S \ Range(s)} : s \in shorter}

\* the sequences of length at most n over the set S
RECURSIVE SeqsUpTo(_, _)
SeqsUpTo(S, n) ==
    IF n = 0 THEN {<<>>}
    ELSE LET shorter == SeqsUpTo(S, n - 1)
         IN  shorter \cup {Append(s, x) : s \in shorter, x \in S}

----------------------------------------------------------------------------
(* canopy-core/src/graph.rs: Graph over petgraph::StableDiGraph.           *)
(* nodes / edges are the slot vectors (None is a vacant slot), free_node / *)
(* free_edge the stacks of vacant slots StableGraph reuses first, adj the  *)
(* live edges in insertion order (each node's adjacency list is the edges  *)
(* of adj that touch it, newest first).                                    *)

Graph_new ==
    [nodes |-> <<>>, free_node |-> <<>>, edges |-> <<>>, free_edge |-> <<>>, adj |-> <<>>]

node(g, id) == IF id < Len(g.nodes) THEN g.nodes[id + 1] ELSE None

edge(g, id) == IF id < Len(g.edges) THEN g.edges[id + 1] ELSE None

node_indices(g) == {i \in 0..(Len(g.nodes) - 1) : g.nodes[i + 1] # None}

edge_indices(g) == {i \in 0..(Len(g.edges) - 1) : g.edges[i + 1] # None}

node_count(g) == Cardinality(node_indices(g))

edge_count(g) == Cardinality(edge_indices(g))

\* a vacant slot is reused before the vector grows
add_node(g, n) ==
    IF g.free_node # <<>>
    THEN [graph |-> [g EXCEPT !.nodes[Head(g.free_node) + 1] = Some(n),
                              !.free_node = Tail(g.free_node)],
          id |-> Head(g.free_node)]
    ELSE [graph |-> [g EXCEPT !.nodes = Append(g.nodes, Some(n))],
          id |-> Len(g.nodes)]

\* StableGraph::add_edge panics when an endpoint is not a node of the graph
add_edge(g, e) ==
    LET reuse == g.free_edge # <<>>
        idx == IF reuse THEN Head(g.free_edge) ELSE Len(g.edges)
    IN  IF node(g, e.source) = None \/ node(g, e.target) = None
        THEN [graph |-> g, id |-> idx, panicked |-> TRUE]
        ELSE [graph |-> [g EXCEPT
                  !.edges = IF reuse THEN [@ EXCEPT ![idx + 1] = Some(e)]
                                     ELSE Append(@, Some(e)),
                  !.free_edge = IF reuse THEN Tail(@) ELSE @,
                  !.adj = Append(@, idx)],
              id |-> idx, panicked |-> FALSE]

remove_edge(g, id) ==
    IF edge(g, id) = None THEN g
    ELSE [g EXCEPT !.edges[id + 1] = None,
                   !.free_edge = <<id>> \o @,
                   !.adj = SelectSeq(@, LAMBDA x : x # id)]

RECURSIVE remove_edges(_, _)
remove_edges(g, ids) ==
    IF ids = <<>> THEN g
    ELSE remove_edges(remove_edge(g, Head(ids)), Tail(ids))

\* the edges StableGraph::remove_node removes, in its order: the outgoing
\* list, then what is left of the incoming list, each newest first
incident_edges(g, id) ==
    LET newest == Reverse(g.adj)
        out == SelectSeq(newest, LAMBDA x : g.edges[x + 1][1].source = id)
        inc == SelectSeq(newest, LAMBDA x : /\ g.edges[x + 1][1].target = id
                                            /\ g.edges[x + 1][1].source # id)
    IN  out \o inc

\* a removal that forgets the incident edges
remove_node_keeping_edges(g, id) ==
    IF node(g, id) = None THEN g
    ELSE [g EXCEPT !.nodes[id + 1] = None, !.free_node = <<id>> \o @]

\* a removal that takes the outgoing edges only
remove_node_leaving_incoming(g, id) ==
    IF node(g, id) = None THEN g
    ELSE LET out == SelectSeq(Reverse(g.adj), LAMBDA x : g.edges[x + 1][1].source = id)
             g1 == remove_edges(g, out)
         IN  [g1 EXCEPT !.nodes[id + 1] = None, !.free_node = <<id>> \o @]

remove_node(g, id) ==
    IF node(g, id) = None THEN g
    ELSE LET g1 == remove_edges(g, incident_edges(g, id))
         IN  [g1 EXCEPT !.nodes[id + 1] = None, !.free_node = <<id>> \o @]

RECURSIVE remove_nodes(_, _)
remove_nodes(g, ids) ==
    IF ids = <<>> THEN g
    ELSE remove_nodes(remove_node(g, Head(ids)), Tail(ids))

\* the stored values, in index order
RECURSIVE all_nodes_from(_, _)
all_nodes_from(g, i) ==
    IF i >= Len(g.nodes) THEN <<>>
    ELSE g.nodes[i + 1] \o all_nodes_from(g, i + 1)

all_nodes(g) == all_nodes_from(g, 0)

RECURSIVE all_edges_from(_, _)
all_edges_from(g, i) ==
    IF i >= Len(g.edges) THEN <<>>
    ELSE g.edges[i + 1] \o all_edges_from(g, i + 1)

all_edges(g) == all_edges_from(g, 0)

\* edges_directed(current, Incoming): the live edges into the node, the
\* newest first
incoming_edges(g, id) ==
    SelectSeq(Reverse(g.adj), LAMBDA x : edge(g, x) # None /\ edge(g, x)[1].target = id)

\* the `for edge_ref in ...` loop for one popped node: acc is
\* [ancestors, to_visit]
RECURSIVE visit_incoming(_, _, _)
visit_incoming(g, es, acc) ==
    IF es = <<>> THEN acc
    ELSE LET e == edge(g, Head(es))[1]
         IN  visit_incoming(g, Tail(es),
                 IF e.kind = "Contains" /\ e.source \notin acc.ancestors
                 THEN [ancestors |-> acc.ancestors \cup {e.source},
                       to_visit |-> Append(acc.to_visit, e.source)]
                 ELSE acc)

\* `while let Some(current) = to_visit.pop()`
RECURSIVE ancestors_loop(_, _)
ancestors_loop(g, acc) ==
    IF acc.to_visit = <<>> THEN acc.ancestors
    ELSE LET current == acc.to_visit[Len(acc.to_visit)]
             rest == SubSeq(acc.to_visit, 1, Len(acc.to_visit) - 1)
         IN  ancestors_loop(g, visit_incoming(g, incoming_edges(g, current),
                                              [acc EXCEPT !.to_visit = rest]))

\* a search that stops at the parents of the node
ancestors_parents_only(g, n) ==
    visit_incoming(g, incoming_edges(g, n), [ancestors |-> {}, to_visit |-> <<>>]).ancestors

ancestors(g, n) == ancestors_loop(g, [ancestors |-> {}, to_visit |-> <<n>>])

----------------------------------------------------------------------------
(* src/commands.rs: the walk that builds the graph `serve` starts with.    *)
(* The walked directory holds plain files only; every stored value keeps   *)
(* the placeholder id 0 it was built with.                                 *)

DirectoryNode(path) == [id |-> 0, kind |-> "Directory", file_path |-> path]

FileNode(path) == [id |-> 0, kind |-> "File", file_path |-> path]

ContainsEdge(parent_id, child_id) ==
    [id |-> 0, source |-> parent_id, target |-> child_id, kind |-> "Contains",
     edge_source |-> "Structural", confidence |-> 100, file_path |-> None]

RECURSIVE walk_entries(_, _, _)
walk_entries(g, parent_id, entries) ==
    IF entries = <<>> THEN g
    ELSE LET child == add_node(g, FileNode(Head(entries)))
             e == add_edge(child.graph, ContainsEdge(parent_id, child.id))
         IN  walk_entries(e.graph, parent_id, Tail(entries))

walk_filesystem(root, entries) ==
    LET r == add_node(Graph_new, DirectoryNode(root))
    IN  walk_entries(r.graph, r.id, entries)

----------------------------------------------------------------------------
(* canopy-indexer/src/languages: what an extraction can yield for a path.  *)
(* Every extractor leaves NodeId(0) / EdgeId(0) in what it emits; import    *)
(* edges run from NodeId(0) to NodeId(0).                                  *)

ExtractedNode(path, kind) == [id |-> 0, kind |-> kind, file_path |-> path]

\* rust.rs emits import edges at confidence 1.0, python.rs at 0.7
ImportEdge(path) ==
    [id |-> 0, source |-> 0, target |-> 0, kind |-> "Imports",
     edge_source |-> "Heuristic",
     confidence |-> IF path.ext = Some("rs") THEN 100 ELSE 70,
     file_path |-> Some(path)]

EmptyExtraction == [nodes |-> <<>>, edges |-> <<>>]

\* get_extractor: rust and python extractors, the generic one (which
\* extracts nothing) for every other extension.  The Rust extractor emits
\* one edge per `use`, the Python one an edge per matching (import, symbol).
ExtractionResults(path) ==
    IF path.ext \notin {Some("rs"), Some("py")} THEN {EmptyExtraction}
    ELSE LET all == {[nodes |-> [i \in 1..Len(ks) |-> ExtractedNode(path, ks[i])],
                      edges |-> [i \in 1..n |-> ImportEdge(path)]] :
                        ks \in SeqsUpTo(NodeKinds, MaxExtractNodes),
                        n \in 0..MaxExtractEdges}
         IN  {r \in all : path.ext = Some("rs") \/ r.nodes # <<>> \/ r.edges = <<>>}

----------------------------------------------------------------------------
(* canopy-ai/src/budget.rs *)

TotalTokens == 1000     \* the session budget configured
ConsumedTokens == 990   \* tokens one use_tokens call of the session records

Budget_new(total_tokens) ==
    [total_tokens |-> total_tokens, tokens_used |-> 0, auto_accept_threshold |-> 80]

has_budget(b, estimated_tokens) == b.tokens_used + estimated_tokens <= b.total_tokens

use_tokens(b, tokens) == [b EXCEPT !.tokens_used = @ + tokens]

should_auto_accept(b, confidence) == confidence >= b.auto_accept_threshold

estimate_tokens(prompt_length) == (prompt_length \div 4) + 500

\* canopy-ai/src/bridge.rs: AIBudget, with the u32 fields at their width.  A
\* u32 is the pair <<high, low>> of its 16-bit halves.
Half == 65536

u32(high, low) == <<high, low>>

\* a + b: the wrapped sum, and whether the sum left the u32 range
u32_add(a, b) ==
    LET low == a[2] + b[2]
        high == a[1] + b[1] + (low \div Half)
    IN  [value |-> u32(high % Half, low % Half), overflow |-> high >= Half]

u32_le(a, b) == a[1] < b[1] \/ (a[1] = b[1] /\ a[2] <= b[2])

AIBudget_new(total_tokens) ==
    [total_tokens |-> total_tokens, tokens_used |-> u32(0, 0), auto_accept_threshold |-> 80,
     asked |-> None, answer |-> None, uses |-> 0]

\* `self.tokens_used + estimated_tokens <= self.total_tokens`: the results
\* the builds give.  An overflowing `+` panics where overflow checks are
\* compiled in (the dev profile) and wraps where they are not (release).
AIBudget_has_budget(b, estimated_tokens) ==
    LET sum == u32_add(b.tokens_used, estimated_tokens)
        answer == IF u32_le(sum.value, b.total_tokens) THEN "true" ELSE "false"
    IN  IF sum.overflow THEN {"panic", answer} ELSE {answer}

\* `self.tokens_used += tokens`, likewise
AIBudget_use_tokens(b, tokens) ==
    LET sum == u32_add(b.tokens_used, tokens)
    IN  {[budget |-> [b EXCEPT !.tokens_used = sum.value, !.asked = None, !.answer = None,
                               !.uses = @ + 1],
          panicked |-> FALSE]}
        \cup (IF sum.overflow THEN {[budget |-> b, panicked |-> TRUE]} ELSE {})

----------------------------------------------------------------------------
(* canopy-core/src/diff.rs *)

GraphDiff_new(seq) ==
    [sequence |-> seq, added_nodes |-> <<>>, removed_nodes |-> <<>>,
     added_edges |-> <<>>, removed_edges |-> <<>>, modified_nodes |-> <<>>]

\* compute_diff(&Graph::new(), &Graph::new()): the diff is dropped by the
\* callers, what stays is the incremented counter
compute_diff(seq) == seq + 1

----------------------------------------------------------------------------
(* canopy-watcher/src/watcher.rs: WatcherService *)

is_code_file(path) ==
    /\ path.ext # None
    /\ path.ext[1] \in {"rs", "ts", "js", "jsx", "tsx", "py", "go", "java", "cpp", "c", "h"}

\* HashMap get(..).cloned().unwrap_or_default(), insert and remove
MapGet(m, k) == IF k \in DOMAIN m THEN m[k] ELSE <<>>

MapInsert(m, k, v) == [q \in DOMAIN m \cup {k} |-> IF q = k THEN v ELSE m[q]]

MapRemove(m, k) == [q \in DOMAIN m \ {k} |-> m[q]]

EmptyMap == [q \in {} |-> <<>>]

Ids(items) == [i \in 1..Len(items) |-> items[i].id]

\* the loop over extraction_result.nodes: the graph stores the value as
\* extracted, the diff gets the copy with the assigned id
RECURSIVE add_nodes(_, _, _)
add_nodes(g, ns, added) ==
    IF ns = <<>> THEN [graph |-> g, added |-> added]
    ELSE LET r == add_node(g, Head(ns))
         IN  add_nodes(r.graph, Tail(ns), Append(added, [Head(ns) EXCEPT !.id = r.id]))

\* the loop over edges; it ends at the first add_edge that panics
RECURSIVE add_edges(_, _, _)
add_edges(g, es, added) ==
    IF es = <<>> THEN [graph |-> g, added |-> added, panicked |-> FALSE]
    ELSE LET r == add_edge(g, Head(es))
         IN  IF r.panicked
             THEN [graph |-> g, added |-> added, panicked |-> TRUE]
             ELSE add_edges(r.graph, Tail(es), Append(added, [Head(es) EXCEPT !.id = r.id]))

\* s is the service state [graph, file_to_nodes, file_to_edges, sequence]
update_graph_incrementally(s, path, extraction_result, old_nodes, old_edges) ==
    LET g1 == remove_nodes(remove_edges(s.graph, old_edges), old_nodes)
        n == add_nodes(g1, extraction_result.nodes, <<>>)
        e == add_edges(n.graph, extraction_result.edges, <<>>)
        diff == [GraphDiff_new(0) EXCEPT
                    !.added_nodes = n.added, !.removed_nodes = old_nodes,
                    !.added_edges = e.added, !.removed_edges = old_edges,
                    !.sequence = s.sequence + 1]
    IN  IF e.panicked
        THEN [s |-> [s EXCEPT !.graph = e.graph], diff |-> None, panicked |-> TRUE]
        ELSE [s |-> [graph |-> e.graph,
                     file_to_nodes |-> MapInsert(s.file_to_nodes, path, Ids(n.added)),
                     file_to_edges |-> MapInsert(s.file_to_edges, path, Ids(e.added)),
                     sequence |-> compute_diff(s.sequence)],
              diff |-> Some(diff), panicked |-> FALSE]

\* a handler that clears the file's entities before it knows the extraction
\* succeeded
change_graph_clearing_on_error(s, path, outcome) ==
    IF ~is_code_file(path) \/ outcome.tag = "read_error"
    THEN [s |-> s, diff |-> None, panicked |-> FALSE]
    ELSE update_graph_incrementally(s, path,
             IF outcome.tag = "ok" THEN outcome.result ELSE EmptyExtraction,
             MapGet(s.file_to_nodes, path), MapGet(s.file_to_edges, path))

\* handle_file_change up to the structural update: the fast reject, the
\* read, the extraction, the replacement
change_graph(s, path, outcome) ==
    IF ~is_code_file(path) \/ outcome.tag # "ok"
    THEN [s |-> s, diff |-> None, panicked |-> FALSE]
    ELSE update_graph_incrementally(s, path, outcome.result,
             MapGet(s.file_to_nodes, path), MapGet(s.file_to_edges, path))

\* the removal diff is built with GraphDiff::new(0) and its sequence is
\* never set; the counter is advanced all the same
handle_file_removal(s, path) ==
    IF ~is_code_file(path) THEN [s |-> s, diff |-> None]
    ELSE LET nodes_to_remove == MapGet(s.file_to_nodes, path)
             edges_to_remove == MapGet(s.file_to_edges, path)
         IN  [s |-> [graph |-> remove_nodes(remove_edges(s.graph, edges_to_remove),
                                            nodes_to_remove),
                     file_to_nodes |-> MapRemove(s.file_to_nodes, path),
                     file_to_edges |-> MapRemove(s.file_to_edges, path),
                     sequence |-> compute_diff(s.sequence)],
              diff |-> Some([GraphDiff_new(0) EXCEPT
                                !.removed_nodes = nodes_to_remove,
                                !.removed_edges = edges_to_remove])]

\* a loop of perform_ai_analysis that stops at the first provider error
remaining_nodes_until_error(todo, answer) ==
    IF answer.tag = "err" THEN <<>> ELSE Tail(todo)

\* perform_ai_analysis: the nodes left to analyse once the provider has
\* answered, Ok or Err, for the first of todo
remaining_nodes(todo, answer) == Tail(todo)

\* perform_ai_analysis: the nodes it sends a request for
analysed_nodes(added_nodes) ==
    SelectSeq(added_nodes, LAMBDA n : n.kind \in {"Function", "Method"})

AcceptConfidence == 70  \* `rel.confidence >= 0.7`

\* the edges perform_ai_analysis makes of one provider answer
accepted_edges(path, relationships) ==
    LET kept == SelectSeq(relationships, LAMBDA rel : rel.confidence >= AcceptConfidence)
    IN  [i \in 1..Len(kept) |->
            [id |-> 0, source |-> kept[i].source_id, target |-> kept[i].target_id,
             kind |-> "Calls", edge_source |-> "AI",
             confidence |-> kept[i].confidence, file_path |-> Some(path)]]

graph_diff_message(diff) == [type |-> "graph_diff", diff |-> diff]

\* diff_tx.send: the channel retains its newest BroadcastCapacity messages
send(channel, message) ==
    LET all == Append(channel, message)
    IN  IF Len(all) > BroadcastCapacity THEN Tail(all) ELSE all

\* handle_file_change after perform_ai_analysis returned ai_edges: they are
\* added to the graph and recorded under the file if it is tracked
add_ai_edges(s, path, ai_edges) ==
    IF ai_edges = <<>> THEN [s |-> s, panicked |-> FALSE]
    ELSE LET e == add_edges(s.graph, ai_edges, <<>>)
         IN  IF e.panicked
             THEN [s |-> [s EXCEPT !.graph = e.graph], panicked |-> TRUE]
             ELSE [s |-> [s EXCEPT
                        !.graph = e.graph,
                        !.file_to_edges =
                            IF path \in DOMAIN @
                            THEN [@ EXCEPT ![path] = @ \o Ids(e.added)]
                            ELSE @],
                   panicked |-> FALSE]

----------------------------------------------------------------------------
(* canopy-core/src/symbols.rs: SymbolTable.  symbols and file_symbols are  *)
(* DashMaps: each call of one of them is atomic, a method of SymbolTable   *)
(* that makes several calls is not.                                        *)

SymbolTable_new == [symbols |-> EmptyMap, file_symbols |-> EmptyMap]

\* self.symbols.insert(qualified_name, node_id)
symbols_insert(t, qualified_name, node_id) ==
    [t EXCEPT !.symbols = MapInsert(@, qualified_name, node_id)]

\* self.file_symbols.entry(file_path).or_insert_with(Vec::new).push(qualified_name)
file_symbols_push(t, file_path, qualified_name) ==
    [t EXCEPT !.file_symbols = MapInsert(@, file_path, Append(MapGet(@, file_path),
                                                              qualified_name))]

\* self.file_symbols.remove(file_path)
file_symbols_remove(t, file_path) ==
    [table |-> [t EXCEPT !.file_symbols = MapRemove(@, file_path)],
     removed |-> IF file_path \in DOMAIN t.file_symbols
                 THEN Some(t.file_symbols[file_path]) ELSE None]

\* self.symbols.remove(&name)
symbols_remove(t, name) == [t EXCEPT !.symbols = MapRemove(@, name)]

lookup(t, qualified_name) ==
    IF qualified_name \in DOMAIN t.symbols THEN Some(t.symbols[qualified_name]) ELSE None

\* SymbolTable::insert run to its end
insert(t, qualified_name, node_id, file_path) ==
    file_symbols_push(symbols_insert(t, qualified_name, node_id), file_path, qualified_name)

\* `for name in symbols { self.symbols.remove(&name); }`
RECURSIVE symbols_remove_each(_, _)
symbols_remove_each(t, names) ==
    IF names = <<>> THEN t
    ELSE symbols_remove_each(symbols_remove(t, Head(names)), Tail(names))

\* a removal that forgets the entry of the file and keeps its names
remove_file_keeping_symbols(t, file_path) == file_symbols_remove(t, file_path).table

\* SymbolTable::remove_file run to its end
remove_file(t, file_path) ==
    LET r == file_symbols_remove(t, file_path)
    IN  IF r.removed = None THEN r.table
        ELSE symbols_remove_each(r.table, r.removed[1])

RECURSIVE lookup_each(_, _)
lookup_each(t, names) ==
    IF names = <<>> THEN <<>>
    ELSE lookup(t, Head(names)) \o lookup_each(t, Tail(names))

symbols_in_file(t, file_path) == lookup_each(t, MapGet(t.file_symbols, file_path))

IdleThread == [pc |-> "idle", name |-> "", id |-> 0, file |-> "", names |-> <<>>,
               undisturbed |-> FALSE]

SymbolNames == {"x", "y"}

SymbolFiles == {"f", "g"}

----------------------------------------------------------------------------
(* canopy-server/src/handlers.rs *)

NodeResponse(n) == [id |-> n.id, kind |-> n.kind, file_path |-> n.file_path]

EdgeResponse(e) ==
    [id |-> e.id, source |-> e.source, target |-> e.target, kind |-> e.kind,
     edge_source |-> e.edge_source, confidence |-> e.confidence]

\* `for i in 0..graph.node_count()`: graph.node(NodeId(i)) of each i below bound
RECURSIVE nodes_below(_, _, _)
nodes_below(g, i, bound) ==
    IF i >= bound THEN <<>>
    ELSE (IF node(g, i) = None THEN <<>> ELSE <<NodeResponse(node(g, i)[1])>>)
         \o nodes_below(g, i + 1, bound)

get_graph(g) ==
    [nodes |-> nodes_below(g, 0, node_count(g)),
     edges |-> [i \in 1..Len(all_edges(g)) |-> EdgeResponse(all_edges(g)[i])]]

----------------------------------------------------------------------------
(* canopy-server/src/websocket.rs *)

graph_to_graph_data(g) == [nodes |-> all_nodes(g), edges |-> all_edges(g), sequence |-> 0]

----------------------------------------------------------------------------
(* The client of round-trip law R1: a copy of the graph, built from the    *)
(* full_graph snapshot and kept by applying each graph_diff received.  The *)
(* copy files each snapshot value under the id the store holds it at, and  *)
(* removing a node drops its incident edges, as the store does.            *)

Restrict(f, S) == [x \in S |-> f[x]]

client_snapshot(g) ==
    [connected |-> TRUE,
     nodes |-> [i \in node_indices(g) |-> g.nodes[i + 1][1]],
     edges |-> [i \in edge_indices(g) |-> g.edges[i + 1][1]]]

apply_diff(c, d) ==
    LET gone == Range(d.removed_nodes)
        edges1 == Restrict(c.edges, DOMAIN c.edges \ Range(d.removed_edges))
        edges2 == Restrict(edges1, {i \in DOMAIN edges1 :
                                       /\ edges1[i].source \notin gone
                                       /\ edges1[i].target \notin gone})
        nodes1 == Restrict(c.nodes, DOMAIN c.nodes \ gone)
        new_nodes == {d.added_nodes[i].id : i \in 1..Len(d.added_nodes)}
        new_edges == {d.added_edges[i].id : i \in 1..Len(d.added_edges)}
    IN  [c EXCEPT
            !.nodes = [i \in DOMAIN nodes1 \cup new_nodes |->
                          IF i \in new_nodes
                          THEN (CHOOSE n \in Range(d.added_nodes) : n.id = i)
                          ELSE nodes1[i]],
            !.edges = [i \in DOMAIN edges2 \cup new_edges |->
                          IF i \in new_edges
                          THEN (CHOOSE e \in Range(d.added_edges) : e.id = i)
                          ELSE edges2[i]]]

\* the send task forwards a message of diff_tx to the connected client
deliver(c, diff) ==
    IF c.connected /\ diff # None THEN apply_diff(c, diff[1]) ELSE c

----------------------------------------------------------------------------
(* canopy-watcher/src/watcher.rs: FileWatcher.  A watched path is its      *)
(* directory components, its file stem and its extension.                  *)

WatchPaths ==
    {[dirs |-> <<>>, stem |-> "a", ext |-> Some("rs")],
     [dirs |-> <<"target">>, stem |-> "a", ext |-> Some("rs")],
     [dirs |-> <<".canopy">>, stem |-> "a", ext |-> Some("rs")],
     [dirs |-> <<".openclaw">>, stem |-> "a", ext |-> Some("rs")],
     [dirs |-> <<"src">>, stem |-> "lib", ext |-> Some("hpp")],
     [dirs |-> <<>>, stem |-> "node_modules", ext |-> None]}

\* Path::components, each as the name it compares equal to; a file name
\* with an extension equals none of the names should_ignore_path looks for
components(path) ==
    path.dirs \o (IF path.ext = None THEN <<path.stem>> ELSE <<>>)

should_ignore_path(path) ==
    \E i \in 1..Len(components(path)) :
        components(path)[i] \in {"target", ".git", "node_modules", ".openclaw"}

\* the kinds of notify::EventKind
NotifyKinds == {"Create", "Modify", "Remove", "Access"}

\* the WatchEvent handle_notify_event makes of a notification of this kind
watch_kind(kind) ==
    CASE kind = "Create" -> Some("Created")
      [] kind = "Modify" -> Some("Modified")
      [] kind = "Remove" -> Some("Removed")
      [] OTHER -> None

\* handle_notify_event: one WatchEvent for each path that is not ignored.
\* burst marks an event that follows, within the coalescing window, a
\* watch event for the same path.
RECURSIVE handle_notify_event(_, _, _, _)
handle_notify_event(kind, paths, rx, last) ==
    IF paths = <<>> \/ watch_kind(kind) = None THEN [event_rx |-> rx, notified |-> last]
    ELSE LET path == Head(paths)
             ignored == should_ignore_path(path)
             burst == last # None /\ last[1].open /\ last[1].emitted /\ last[1].path = path
         IN  handle_notify_event(kind, Tail(paths),
                 IF ignored THEN rx
                 ELSE Append(rx, [kind |-> watch_kind(kind)[1], path |-> path, burst |-> burst]),
                 Some([path |-> path, emitted |-> ~ignored, open |-> TRUE]))

\* a receiver that hands out the newest event first
recv_event_newest(rx) ==
    [event |-> rx[Len(rx)], rest |-> SubSeq(rx, 1, Len(rx) - 1)]

\* event_rx.recv() of process_events: the unbounded channel is first in,
\* first out
recv_event(rx) == [event |-> Head(rx), rest |-> Tail(rx)]

----------------------------------------------------------------------------
(* canopy-server/src/websocket.rs: one connection of handle_socket.        *)

\* a file whose name is not valid UTF-8, which a directory can hold
NonUtf8Name == [stem |-> "a<0xFF>", ext |-> Some("rs")]

\* Path::to_str: None when the path is not valid Unicode
to_str(path) == IF path = NonUtf8Name THEN None ELSE Some(path)

\* serde_json::to_string(&full_graph_msg) is Ok: the Serialize of PathBuf
\* fails on a path that to_str rejects
full_graph_serializes(g) ==
    \A i \in 1..Len(g.nodes) :
        g.nodes[i] # None => to_str(g.nodes[i][1].file_path) # None

\* handle_socket up to its spawns: subscribe, then the full graph.  log is
\* what was sent on the socket, cursor the count of broadcast messages the
\* receiver is past, got the broadcast messages forwarded to it, missed the
\* diffs it lost since the last full graph.
open_socket(g, broadcast_sent, sink_ok) ==
    IF ~full_graph_serializes(g)
    THEN [state |-> "open", cursor |-> broadcast_sent, log |-> <<>>, got |-> <<>>, missed |-> 0]
    ELSE IF sink_ok
    THEN [state |-> "open", cursor |-> broadcast_sent, log |-> <<"full_graph">>, got |-> <<>>, missed |-> 0]
    ELSE [state |-> "closed", cursor |-> broadcast_sent, log |-> <<>>, got |-> <<>>, missed |-> 0]

\* rx.recv() of the send task: the channel holds the messages numbered
\* broadcast_sent - Len(channel) + 1 .. broadcast_sent
rx_recv(channel, broadcast_sent, cursor) ==
    LET oldest == broadcast_sent - Len(channel)
    IN  IF cursor < oldest THEN [tag |-> "Lagged", skipped |-> oldest - cursor, msg |-> None]
        ELSE IF cursor < broadcast_sent
        THEN [tag |-> "Ok", skipped |-> 0, msg |-> Some(channel[cursor - oldest + 1])]
        ELSE [tag |-> "Pending", skipped |-> 0, msg |-> None]

\* a send task that forwards a message and stays at it
send_task_step_without_advance(sock, r, sink_ok) ==
    IF r.tag = "Lagged"
    THEN [sock EXCEPT !.cursor = @ + r.skipped, !.missed = @ + r.skipped]
    ELSE IF sink_ok
    THEN [sock EXCEPT !.log = Append(@, r.msg[1].type), !.got = Append(@, r.msg[1])]
    ELSE [sock EXCEPT !.state = "closed"]

\* one turn of the loop of the send task
send_task_step(sock, r, sink_ok) ==
    IF r.tag = "Lagged"
    THEN [sock EXCEPT !.cursor = @ + r.skipped, !.missed = @ + r.skipped]
    ELSE IF sink_ok
    THEN [sock EXCEPT !.cursor = @ + 1, !.log = Append(@, r.msg[1].type),
                      !.got = Append(@, r.msg[1])]
    ELSE [sock EXCEPT !.state = "closed"]

----------------------------------------------------------------------------
(* canopy-indexer/src/parser_pool.rs.  pool.handles counts the ParserPool  *)
(* values alive, pool.queue is the request channel, pool.lock the holder   *)
(* of the mutex around its receiver.  A worker is at "lock" (about to take *)
(* the mutex), "recv" (holding it, inside recv), "serve" (parsing the      *)
(* request it took) or "exited".  A caller is at "start", "waiting" (in    *)
(* recv on its reply channel), "done" or "dropped" (it let go of its reply *)
(* receiver); replies is what was sent into its reply channel, takers the  *)
(* workers that took its request.                                          *)

NewWorker == [pc |-> "lock", request |-> None]

NewCaller == [pc |-> "start", api |-> "parse_blocking", result |-> None,
              replies |-> <<>>, takers |-> {}]

ParserPool_new(num_workers) ==
    [pool |-> [handles |-> 1, queue |-> <<>>, lock |-> None],
     workers |-> [w \in 1..num_workers |-> NewWorker]]

\* the receiver is dropped with the last Arc that holds it: every worker
\* has returned, or none was ever spawned
receiver_dropped(ws) == \A w \in DOMAIN ws : ws[w].pc = "exited"

\* the Sender values alive: the pool handles, and the clone each running
\* closure of `parse` holds
senders(p, cs) ==
    p.handles + Cardinality({c \in DOMAIN cs : cs[c].api = "parse" /\ cs[c].pc = "waiting"})

WorkerRequest(c) == [request |-> c, response_sender |-> c]

\* a send that queues the request whether or not a receiver is left
send_request_unchecked(p, ws, worker_request) ==
    [pool |-> [p EXCEPT !.queue = Append(@, worker_request)], ok |-> TRUE]

\* self.sender.send(worker_request)
send_request(p, ws, worker_request) ==
    IF receiver_dropped(ws) THEN [pool |-> p, ok |-> FALSE]
    ELSE [pool |-> [p EXCEPT !.queue = Append(@, worker_request)], ok |-> TRUE]

\* parse_blocking / the closure of parse, up to the wait for the reply
submit(p, ws, caller, c, api) ==
    LET r == send_request(p, ws, WorkerRequest(c))
    IN  [pool |-> r.pool,
         caller |-> IF r.ok THEN [caller EXCEPT !.api = api, !.pc = "waiting"]
                    ELSE [caller EXCEPT !.api = api, !.pc = "done",
                                        !.result = Some("PoolShutDown")]]

\* a receive that leaves the request in the channel
dequeue_keeping(queue) == queue

\* Receiver::recv removes what it returns
dequeue(queue) == Tail(queue)

\* receiver.lock().unwrap().recv(): the queued request if there is one, Err
\* once no sender is left, blocked otherwise
recv(p, cs) ==
    IF p.queue # <<>> THEN [tag |-> "Ok", req |-> Some(Head(p.queue))]
    ELSE IF senders(p, cs) = 0 THEN [tag |-> "Err", req |-> None]
    ELSE [tag |-> "Blocked", req |-> None]

\* a guard that outlives the thread that took it
unlock_never(lock) == lock

\* the MutexGuard is a temporary of the `let request = match ...;`
\* statement: it is dropped when the statement ends or is left by break
unlock(lock) == None

\* a worker that returns after an error reply
next_pc_exit_on_error(outcome, delivered) ==
    IF outcome = "Ok" /\ delivered THEN "lock" ELSE "exited"

\* the worker after its reply: `continue`, or the end of the loop body
next_pc(outcome, delivered) == "lock"

\* what the worker sends for the outcome of set_language and parse
WorkerOutcomes == {"SetLanguageError", "ParseError", "Ok"}

\* response_sender.send(result): Err when the receiver is gone
respond(cs, worker_request, w, outcome) ==
    LET c == worker_request.response_sender
    IN  IF cs[c].pc = "waiting"
        THEN [callers |-> [cs EXCEPT ![c].replies =
                              Append(@, [from |-> w, request |-> worker_request.request,
                                         value |-> outcome])],
              delivered |-> TRUE]
        ELSE [callers |-> cs, delivered |-> FALSE]

\* a request that is neither queued nor with a worker has been dropped,
\* and its response_sender with it
request_dropped(p, ws, c) ==
    /\ \A i \in 1..Len(p.queue) : p.queue[i].request # c
    /\ \A w \in DOMAIN ws : ws[w].request # Some(WorkerRequest(c))

----------------------------------------------------------------------------
(* The state machine *)

Service ==
    [graph |-> graph, file_to_nodes |-> file_to_nodes,
     file_to_edges |-> file_to_edges, sequence |-> sequence]

\* errors counts the provider errors of the AI pass (the warn! of its Err arm)
NoPending ==
    [path |-> Root, diff |-> GraphDiff_new(0), todo |-> <<>>, ai_edges |-> <<>>, errors |-> 0]

NoEvent == [kind |-> "none", path |-> Root, outcome |-> "none"]

\* what reading and extracting a changed file can come to
Outcomes(path) ==
    IF ~is_code_file(path) THEN {[tag |-> "not_code", result |-> EmptyExtraction]}
    ELSE {[tag |-> "read_error", result |-> EmptyExtraction],
          [tag |-> "extract_error", result |-> EmptyExtraction]}
         \cup {[tag |-> "ok", result |-> r] : r \in ExtractionResults(path)}

Relationships ==
    [source_id : 0..MaxAnswerId, target_id : 0..MaxAnswerId, confidence : Confidences]

\* what the provider can answer to one request
ProviderAnswers ==
    {[tag |-> "err", relationships |-> <<>>]}
    \cup {[tag |-> "ok", relationships |-> r] : r \in SeqsUpTo(Relationships, MaxRelationships)}

\* the graph the service is constructed over: a new one, or the one `serve`
\* walked from the directory
InitialGraphs ==
    {Graph_new} \cup {walk_filesystem(Root, l) : l \in InjectiveSeqs(Paths, MaxWalkFiles)}

\* no watch event was sent, no connection was made, no pool was created
NoSocket == [state |-> "none", cursor |-> 0, log |-> <<>>, got |-> <<>>, missed |-> 0]

NoCalls ==
    [last |-> [op |-> "none", id |-> 0, ret |-> None, cascade |-> {}],
     removed_nodes |-> {}, removed_edges |-> {}]

\* a new SymbolTable that no thread calls
NoSymbols == [table |-> SymbolTable_new, threads |-> <<>>, calls |-> 0]

\* no event has arrived
NoExtracted == [of |-> EmptyMap, arrivals |-> 0, taken |-> 0]

\* the graph lock is free and the updater is between two events
NoTxn ==
    [lock |-> [writer |-> FALSE, readers |-> 0], pc |-> "idle", kind |-> "none",
     path |-> Root, todo |-> EmptyExtraction, old_nodes |-> <<>>, old_edges |-> <<>>,
     added_nodes |-> <<>>, added_edges |-> <<>>, before |-> Graph_new, from |-> 0,
     diff |-> GraphDiff_new(0), seen |-> None]

NoPool == [handles |-> 0, queue |-> <<>>, lock |-> None]

InitOthers ==
    /\ event_rx = <<>>
    /\ notified = None
    /\ diffOf = None
    /\ emitted = <<>>
    /\ graphCalls = NoCalls
    /\ symtab = NoSymbols
    /\ extracted = NoExtracted
    /\ txn = NoTxn
    /\ socket = NoSocket
    /\ pool = NoPool
    /\ workers = <<>>
    /\ callers = <<>>

Init ==
    /\ InitOthers
    /\ graph \in InitialGraphs
    /\ file_to_nodes = EmptyMap
    /\ file_to_edges = EmptyMap
    /\ sequence = 0
    /\ ai_provider \in BOOLEAN
    /\ budget = Budget_new(TotalTokens)
    /\ pc = "idle"
    /\ pending = NoPending
    /\ panicked = FALSE
    /\ broadcast = <<>>
    /\ sent = 0
    /\ lastEvent = NoEvent
    /\ client = [connected |-> FALSE, nodes |-> EmptyMap, edges |-> EmptyMap]

\* process_events takes Created(path) or Modified(path), which it handles
\* alike: handle_file_change up to the broadcast, or up to its first
\* provider call
FileChange(path, outcome) ==
        /\ pc = "idle" /\ ~panicked /\ sequence < MaxUpdates
        /\ \E r \in {change_graph(Service, path, outcome)} : LET
               todo == IF r.diff = None THEN <<>> ELSE analysed_nodes(r.diff[1].added_nodes)
               ai == ai_provider /\ outcome.result.nodes # <<>> /\ todo # <<>>
           IN  /\ graph' = r.s.graph
               /\ file_to_nodes' = r.s.file_to_nodes
               /\ file_to_edges' = r.s.file_to_edges
               /\ sequence' = r.s.sequence
               /\ panicked' = r.panicked
               /\ IF ai
                  THEN /\ pc' = "ai"
                       /\ pending' = [path |-> path, diff |-> r.diff[1],
                                      todo |-> todo, ai_edges |-> <<>>, errors |-> 0]
                       /\ UNCHANGED <<broadcast, sent, client>>
                  ELSE /\ UNCHANGED <<pc, pending>>
                       /\ broadcast' = IF r.diff = None THEN broadcast
                                       ELSE send(broadcast, graph_diff_message(r.diff[1]))
                       /\ sent' = IF r.diff = None THEN sent ELSE sent + 1
                       /\ client' = deliver(client, r.diff)
        /\ lastEvent' = [kind |-> "Changed", path |-> path, outcome |-> outcome.tag]
        /\ UNCHANGED <<ai_provider, budget>>

HandleFileChange ==
    \E path \in Paths :
      \E outcome \in Outcomes(path) :
        /\ FileChange(path, outcome)
        /\ UNCHANGED otherVars

\* the provider answers the request perform_ai_analysis awaits; after the
\* last answer handle_file_change adds the AI edges and broadcasts the diff
\* update_graph_incrementally returned
ProviderResponds ==
    \E answer \in ProviderAnswers :
        /\ pc = "ai" /\ ~panicked
        /\ LET ai_edges == pending.ai_edges \o
                              (IF answer.tag = "ok"
                               THEN accepted_edges(pending.path, answer.relationships)
                               ELSE <<>>)
               rest == remaining_nodes(pending.todo, answer)
               errors == pending.errors + (IF answer.tag = "err" THEN 1 ELSE 0)
           IN  IF rest # <<>>
               THEN /\ pending' = [pending EXCEPT !.todo = rest, !.ai_edges = ai_edges,
                                                  !.errors = errors]
                    /\ UNCHANGED <<graph, file_to_nodes, file_to_edges, sequence, pc,
                                   panicked, broadcast, sent, client>>
               ELSE \E r \in {add_ai_edges(Service, pending.path, ai_edges)} :
                        /\ graph' = r.s.graph
                        /\ file_to_edges' = r.s.file_to_edges
                        /\ panicked' = r.panicked
                        /\ broadcast' = IF r.panicked THEN broadcast
                                        ELSE send(broadcast, graph_diff_message(pending.diff))
                        /\ sent' = IF r.panicked THEN sent ELSE sent + 1
                        /\ client' = deliver(client, IF r.panicked THEN None
                                                      ELSE Some(pending.diff))
                        /\ pc' = "idle"
                        /\ pending' = [NoPending EXCEPT !.errors = errors]
                        /\ UNCHANGED <<file_to_nodes, sequence>>
        /\ UNCHANGED <<ai_provider, budget, lastEvent>>
        /\ UNCHANGED otherVars

\* the change of a file that defines MaxAnalysed functions
LargeExtraction(path) ==
    [nodes |-> [i \in 1..MaxAnalysed |-> ExtractedNode(path, "Function")], edges |-> <<>>]

HandleLargeFileChange ==
    \E path \in {p \in Paths : is_code_file(p)} :
        /\ FileChange(path, [tag |-> "ok", result |-> LargeExtraction(path)])
        /\ UNCHANGED otherVars

\* process_events takes Removed(path)
FileRemoval(path) ==
        /\ pc = "idle" /\ ~panicked /\ sequence < MaxUpdates
        /\ \E r \in {handle_file_removal(Service, path)} :
               /\ graph' = r.s.graph
               /\ file_to_nodes' = r.s.file_to_nodes
               /\ file_to_edges' = r.s.file_to_edges
               /\ sequence' = r.s.sequence
               /\ broadcast' = IF r.diff = None THEN broadcast
                               ELSE send(broadcast, graph_diff_message(r.diff[1]))
               /\ sent' = IF r.diff = None THEN sent ELSE sent + 1
               /\ client' = deliver(client, r.diff)
        /\ lastEvent' = [kind |-> "Removed", path |-> path,
                         outcome |-> IF is_code_file(path) THEN "ok" ELSE "not_code"]
        /\ UNCHANGED <<ai_provider, budget, pc, pending, panicked>>

HandleFileRemoval ==
    \E path \in Paths :
        /\ FileRemoval(path)
        /\ UNCHANGED otherVars

\* handle_socket: a client subscribes to diff_tx and is sent the full graph
Connect ==
    /\ ~client.connected
    /\ client' = client_snapshot(graph)
    /\ UNCHANGED <<graph, file_to_nodes, file_to_edges, sequence, ai_provider, budget, pc,
                   pending, panicked, broadcast, sent, lastEvent>>
    /\ UNCHANGED otherVars

\* Budget::use_tokens records tokens the session consumed
UseTokens ==
    /\ has_budget(budget, ConsumedTokens)
    /\ budget' = use_tokens(budget, ConsumedTokens)
    /\ UNCHANGED <<graph, file_to_nodes, file_to_edges, sequence, ai_provider, pc, pending,
                   panicked, broadcast, sent, lastEvent, client>>
    /\ UNCHANGED otherVars

\* the updater alone
Next ==
    \/ HandleFileChange
    \/ ProviderResponds
    \/ HandleFileRemoval

Spec == Init /\ [][Next]_vars

\* the updater and a WebSocket client
NextClient ==
    \/ HandleFileChange
    \/ ProviderResponds
    \/ HandleFileRemoval
    \/ Connect

SpecClient == Init /\ [][NextClient]_vars

\* the updater and the session's token consumption
NextBudget ==
    \/ HandleFileChange
    \/ ProviderResponds
    \/ HandleFileRemoval
    \/ UseTokens


\* AIBudget called directly with u32 values at the ends and in the middle
\* of the range
U32Values == {u32(0, 0), u32(0, 1), u32(0, 1000), u32(Half \div 2, 0),
              u32(Half - 1, Half - 2), u32(Half - 1, Half - 1)}

InitAIBudget ==
    /\ graph = Graph_new
    /\ file_to_nodes = EmptyMap
    /\ file_to_edges = EmptyMap
    /\ sequence = 0
    /\ ai_provider = FALSE
    /\ budget \in {AIBudget_new(total) : total \in U32Values}
    /\ pc = "idle"
    /\ pending = NoPending
    /\ panicked = FALSE
    /\ broadcast = <<>>
    /\ sent = 0
    /\ lastEvent = NoEvent
    /\ client = [connected |-> FALSE, nodes |-> EmptyMap, edges |-> EmptyMap]
    /\ InitOthers

aiBudgetFrame == <<graph, file_to_nodes, file_to_edges, sequence, ai_provider, pc, pending,
                   broadcast, sent, lastEvent, client, otherVars>>

\* budget.has_budget(estimated_tokens) is called and answers, or panics
HasBudget ==
    /\ ~panicked
    /\ \E estimated_tokens \in U32Values :
           \E answer \in AIBudget_has_budget(budget, estimated_tokens) :
               /\ budget' = [budget EXCEPT !.asked = Some(estimated_tokens),
                                           !.answer = Some(answer)]
               /\ panicked' = (answer = "panic")
    /\ UNCHANGED aiBudgetFrame

\* budget.use_tokens(tokens)
UseTokensU32 ==
    /\ ~panicked /\ budget.uses < MaxUses
    /\ \E tokens \in U32Values : \E r \in AIBudget_use_tokens(budget, tokens) :
           /\ budget' = r.budget
           /\ panicked' = r.panicked
    /\ UNCHANGED aiBudgetFrame

NextAIBudget ==
    \/ HasBudget
    \/ UseTokensU32

SpecAIBudget == InitAIBudget /\ [][NextAIBudget]_vars
SpecBudget == Init /\ [][NextBudget]_vars

\* the updater with an AI provider, over changes of files of several
\* functions in a walked directory
InitAI == Init /\ ai_provider

NextAI ==
    \/ HandleLargeFileChange
    \/ ProviderResponds
    \/ HandleFileRemoval

SpecAI == InitAI /\ [][NextAI]_vars

serviceVars == <<graph, file_to_nodes, file_to_edges, sequence, ai_provider, budget, pc,
                 pending, panicked, broadcast, sent, lastEvent, client>>

\* a service over a new graph that takes no event
InitIdleService ==
    /\ graph = Graph_new
    /\ file_to_nodes = EmptyMap
    /\ file_to_edges = EmptyMap
    /\ sequence = 0
    /\ ai_provider = FALSE
    /\ budget = Budget_new(TotalTokens)
    /\ pc = "idle"
    /\ pending = NoPending
    /\ panicked = FALSE
    /\ broadcast = <<>>
    /\ sent = 0
    /\ lastEvent = NoEvent
    /\ client = [connected |-> FALSE, nodes |-> EmptyMap, edges |-> EmptyMap]

----------------------------------------------------------------------------
(* The file watcher in front of the updater *)

InitWatcher ==
    /\ InitIdleService
    /\ event_rx = <<>> /\ notified = None /\ diffOf = None /\ emitted = <<>> /\ graphCalls = NoCalls
    /\ symtab = NoSymbols /\ extracted = NoExtracted /\ txn = NoTxn
    /\ socket = NoSocket
    /\ pool = NoPool /\ workers = <<>> /\ callers = <<>>

\* the callback of notify::recommended_watcher is called with an event
Notify ==
    \E kind \in NotifyKinds, paths \in SeqsUpTo(WatchPaths, MaxEventPaths) :
        /\ Len(event_rx) + Len(paths) <= MaxQueued
        /\ \E r \in {handle_notify_event(kind, paths, event_rx, notified)} :
               /\ event_rx' = r.event_rx
               /\ notified' = r.notified
        /\ UNCHANGED <<serviceVars, diffOf, emitted, graphCalls, symtab, extracted, txn, socket, pool, workers, callers>>

\* the coalescing window of the last notification ends
WindowElapses ==
    /\ notified # None /\ notified[1].open
    /\ notified' = Some([notified[1] EXCEPT !.open = FALSE])
    /\ UNCHANGED <<serviceVars, event_rx, diffOf, emitted, graphCalls, symtab, extracted, txn, socket, pool, workers, callers>>

\* process_events: event_rx.recv() returns Created(path) or Modified(path)
TakeChanged ==
    /\ event_rx # <<>> /\ Head(event_rx).kind \in {"Created", "Modified"}
    /\ \E outcome \in Outcomes(Head(event_rx).path) :
           FileChange(Head(event_rx).path, outcome)
    /\ event_rx' = Tail(event_rx)
    /\ diffOf' = IF sent' > sent THEN Some(Head(event_rx)) ELSE None
    /\ UNCHANGED <<notified, emitted, graphCalls, symtab, extracted, txn, socket, pool, workers, callers>>

\* process_events: event_rx.recv() returns Removed(path)
TakeRemoved ==
    /\ event_rx # <<>> /\ Head(event_rx).kind = "Removed"
    /\ FileRemoval(Head(event_rx).path)
    /\ event_rx' = Tail(event_rx)
    /\ diffOf' = IF sent' > sent THEN Some(Head(event_rx)) ELSE None
    /\ UNCHANGED <<notified, emitted, graphCalls, symtab, extracted, txn, socket, pool, workers, callers>>

NextWatcher ==
    \/ Notify
    \/ WindowElapses
    \/ TakeChanged
    \/ TakeRemoved

SpecWatcher == InitWatcher /\ [][NextWatcher]_vars

----------------------------------------------------------------------------
(* One WebSocket connection beside the updater *)

\* the graph `serve` walked: of an empty directory, or of one with one file
SocketGraphs ==
    {walk_filesystem(Root, l) :
         l \in SeqsUpTo({NonUtf8Name, [stem |-> "a", ext |-> Some("rs")]}, MaxWalkFiles)}

InitSocket ==
    /\ InitOthers
    /\ graph \in SocketGraphs
    /\ file_to_nodes = EmptyMap
    /\ file_to_edges = EmptyMap
    /\ sequence = 0
    /\ ai_provider = FALSE
    /\ budget = Budget_new(TotalTokens)
    /\ pc = "idle"
    /\ pending = NoPending
    /\ panicked = FALSE
    /\ broadcast = <<>>
    /\ sent = 0
    /\ lastEvent = NoEvent
    /\ client = [connected |-> FALSE, nodes |-> EmptyMap, edges |-> EmptyMap]

\* ws_handler upgrades a connection and handle_socket runs to its spawns
SocketConnect ==
    /\ socket.state = "none"
    /\ \E sink_ok \in BOOLEAN : socket' = open_socket(graph, sent, sink_ok)
    /\ UNCHANGED <<serviceVars, event_rx, notified, diffOf, emitted, graphCalls, symtab, extracted, txn, pool, workers, callers>>

\* the send task receives from the broadcast channel
SocketRecv ==
    /\ socket.state = "open"
    /\ \E r \in {rx_recv(broadcast, sent, socket.cursor)} :
           /\ r.tag # "Pending"
           /\ \E sink_ok \in BOOLEAN : socket' = send_task_step(socket, r, sink_ok)
    /\ UNCHANGED <<serviceVars, event_rx, notified, diffOf, emitted, graphCalls, symtab, extracted, txn, pool, workers, callers>>

\* the client closes: the receive task ends and the send task is aborted
SocketClose ==
    /\ socket.state = "open"
    /\ socket' = [socket EXCEPT !.state = "closed"]
    /\ UNCHANGED <<serviceVars, event_rx, notified, diffOf, emitted, graphCalls, symtab, extracted, txn, pool, workers, callers>>

NextSocket ==
    \/ HandleFileChange
    \/ HandleFileRemoval
    \/ SocketConnect
    \/ SocketRecv
    \/ SocketClose

SpecSocket == InitSocket /\ [][NextSocket]_vars

----------------------------------------------------------------------------
(* The diff stream: the updater with a record of every message it sends,  *)
(* and one connection.                                                     *)

\* the record of diff_tx after a step of the updater
record_sent == IF sent' > sent THEN Append(emitted, broadcast'[Len(broadcast')]) ELSE emitted

ChangeAndRecord ==
    \E path \in Paths : \E outcome \in Outcomes(path) :
        /\ FileChange(path, outcome)
        /\ emitted' = record_sent
        /\ UNCHANGED <<event_rx, notified, diffOf, graphCalls, symtab, extracted, txn, socket, pool, workers, callers>>

RemovalAndRecord ==
    \E path \in Paths :
        /\ FileRemoval(path)
        /\ emitted' = record_sent
        /\ UNCHANGED <<event_rx, notified, diffOf, graphCalls, symtab, extracted, txn, socket, pool, workers, callers>>

NextStream ==
    \/ ChangeAndRecord
    \/ RemovalAndRecord
    \/ SocketConnect
    \/ SocketRecv
    \/ SocketClose

SpecStream == InitSocket /\ [][NextStream]_vars

----------------------------------------------------------------------------
(* A Graph called directly, and the handler of GET /api/graph over it *)

InitStore ==
    /\ InitIdleService
    /\ event_rx = <<>> /\ notified = None /\ diffOf = None /\ emitted = <<>> /\ graphCalls = NoCalls
    /\ symtab = NoSymbols /\ extracted = NoExtracted /\ txn = NoTxn
    /\ socket = NoSocket
    /\ pool = NoPool /\ workers = <<>> /\ callers = <<>>

storeFrame == <<file_to_nodes, file_to_edges, sequence, ai_provider, budget, pc, pending,
                broadcast, sent, lastEvent, client, event_rx, notified, diffOf, emitted,
                symtab, extracted, txn, socket, pool, workers, callers>>

\* the call, what it returned, and the ids that left the graph with it
called(op, id, ret, g) ==
    [last |-> [op |-> op, id |-> id, ret |-> ret,
               cascade |-> edge_indices(graph) \ edge_indices(g)],
     removed_nodes |-> graphCalls.removed_nodes \cup (node_indices(graph) \ node_indices(g)),
     removed_edges |-> graphCalls.removed_edges \cup (edge_indices(graph) \ edge_indices(g))]

StoreNodes == {ExtractedNode([stem |-> "a", ext |-> Some("rs")], kind) : kind \in NodeKinds}

AddNode ==
    /\ ~panicked
    /\ graph.free_node # <<>> \/ Len(graph.nodes) < MaxStoreNodes
    /\ \E n \in StoreNodes : \E r \in {add_node(graph, n)} :
           /\ graph' = r.graph
           /\ graphCalls' = called("add_node", r.id, None, r.graph)
    /\ UNCHANGED <<storeFrame, panicked>>

AddEdge ==
    /\ ~panicked
    /\ graph.free_edge # <<>> \/ Len(graph.edges) < MaxStoreEdges
    /\ \E source, target \in 0..(MaxStoreNodes - 1) :
           \E r \in {add_edge(graph, ContainsEdge(source, target))} :
               /\ graph' = r.graph
               /\ panicked' = r.panicked
               /\ graphCalls' = IF r.panicked THEN graphCalls
                                ELSE called("add_edge", r.id, None, r.graph)
    /\ UNCHANGED storeFrame

RemoveNode ==
    /\ ~panicked
    /\ \E id \in 0..(MaxStoreNodes - 1) : \E g \in {remove_node(graph, id)} :
           /\ graph' = g
           /\ graphCalls' = called("remove_node", id, node(graph, id), g)
    /\ UNCHANGED <<storeFrame, panicked>>

RemoveEdge ==
    /\ ~panicked
    /\ \E id \in 0..(MaxStoreEdges - 1) : \E g \in {remove_edge(graph, id)} :
           /\ graph' = g
           /\ graphCalls' = called("remove_edge", id, edge(graph, id), g)
    /\ UNCHANGED <<storeFrame, panicked>>

GetGraph ==
    /\ ~panicked
    /\ graphCalls' = called("get_graph", 0, Some(get_graph(graph)), graph)
    /\ UNCHANGED <<graph, storeFrame, panicked>>

NextStore ==
    \/ AddNode
    \/ AddEdge
    \/ RemoveNode
    \/ RemoveEdge
    \/ GetGraph

SpecStore == InitStore /\ [][NextStore]_vars

\* graphs of MaxStoreNodes nodes joined by up to MaxAncestorEdges edges, of
\* the Contains kind and of another
AncestorEdges ==
    {[ContainsEdge(source, target) EXCEPT !.kind = kind] :
         source \in 0..(MaxStoreNodes - 1), target \in 0..(MaxStoreNodes - 1),
         kind \in {"Contains", "Calls"}}

AncestorGraphs ==
    LET ns == [i \in 1..MaxStoreNodes |-> FileNode(Root)]
    IN  {add_edges(add_nodes(Graph_new, ns, <<>>).graph, es, <<>>).graph :
             es \in SeqsUpTo(AncestorEdges, MaxAncestorEdges)}

InitAncestors ==
    /\ graph \in AncestorGraphs
    /\ file_to_nodes = EmptyMap
    /\ file_to_edges = EmptyMap
    /\ sequence = 0
    /\ ai_provider = FALSE
    /\ budget = Budget_new(TotalTokens)
    /\ pc = "idle"
    /\ pending = NoPending
    /\ panicked = FALSE
    /\ broadcast = <<>>
    /\ sent = 0
    /\ lastEvent = NoEvent
    /\ client = [connected |-> FALSE, nodes |-> EmptyMap, edges |-> EmptyMap]
    /\ event_rx = <<>> /\ notified = None /\ diffOf = None /\ emitted = <<>> /\ graphCalls = NoCalls
    /\ symtab = NoSymbols /\ extracted = NoExtracted /\ txn = NoTxn
    /\ socket = NoSocket
    /\ pool = NoPool /\ workers = <<>> /\ callers = <<>>

Ancestors ==
    /\ ~panicked
    /\ \E n \in 0..(MaxStoreNodes - 1) :
           graphCalls' = called("ancestors", n, Some(ancestors(graph, n)), graph)
    /\ UNCHANGED <<graph, storeFrame, panicked>>

NextAncestors ==
    \/ Ancestors
    \/ RemoveNode

SpecAncestors == InitAncestors /\ [][NextAncestors]_vars

----------------------------------------------------------------------------
(* Threads that call one SymbolTable without a lock around it *)

InitSymbols ==
    /\ InitIdleService
    /\ event_rx = <<>> /\ notified = None /\ diffOf = None /\ emitted = <<>> /\ graphCalls = NoCalls
    /\ symtab = [NoSymbols EXCEPT !.threads = [th \in 1..MaxThreads |-> IdleThread]]
    /\ extracted = NoExtracted /\ txn = NoTxn
    /\ socket = NoSocket
    /\ pool = NoPool /\ workers = <<>> /\ callers = <<>>

symbolsFrame == <<serviceVars, event_rx, notified, diffOf, emitted, graphCalls, extracted, txn,
                  socket, pool, workers, callers>>

Removing(th) == symtab.threads[th].pc = "remove_symbols"

\* insert is called and makes its first call, symbols.insert
InsertBegins(th) ==
    /\ symtab.threads[th].pc = "idle" /\ symtab.calls < MaxSymbolCalls
    /\ \E name \in SymbolNames, id \in 0..MaxSymbolId, file \in SymbolFiles :
           symtab' = [symtab EXCEPT
               !.table = symbols_insert(@, name, id),
               !.calls = @ + 1,
               !.threads[th] = [pc |-> "insert_file_symbols", name |-> name, id |-> id,
                                file |-> file, names |-> <<>>,
                                undisturbed |-> \A o \in 1..MaxThreads : ~Removing(o)]]
    /\ UNCHANGED symbolsFrame

\* insert makes its second call, the push on the entry of the file
InsertEnds(th) ==
    /\ symtab.threads[th].pc = "insert_file_symbols"
    /\ symtab' = [symtab EXCEPT
           !.table = file_symbols_push(@, symtab.threads[th].file, symtab.threads[th].name),
           !.threads[th] = IdleThread]
    /\ UNCHANGED symbolsFrame

\* remove_file is called and makes its first call, file_symbols.remove
RemoveFileBegins(th) ==
    /\ symtab.threads[th].pc = "idle" /\ symtab.calls < MaxSymbolCalls
    /\ \E file \in SymbolFiles : \E r \in {file_symbols_remove(symtab.table, file)} :
           symtab' = [symtab EXCEPT
               !.table = r.table,
               !.calls = @ + 1,
               !.threads = [o \in 1..MaxThreads |->
                   IF o = th
                   THEN IF r.removed = None \/ r.removed = Some(<<>>) THEN IdleThread
                        ELSE [IdleThread EXCEPT !.pc = "remove_symbols", !.file = file,
                                                !.names = r.removed[1]]
                   ELSE [@[o] EXCEPT !.undisturbed = FALSE]]]
    /\ UNCHANGED symbolsFrame

\* one turn of `for name in symbols`
RemoveFileSymbol(th) ==
    /\ symtab.threads[th].pc = "remove_symbols"
    /\ symtab' = [symtab EXCEPT
           !.table = symbols_remove(@, Head(symtab.threads[th].names)),
           !.threads[th] = IF Tail(symtab.threads[th].names) = <<>> THEN IdleThread
                           ELSE [@ EXCEPT !.names = Tail(@)]]
    /\ UNCHANGED symbolsFrame

ThreadInserts == \E th \in 1..MaxThreads : InsertBegins(th) \/ InsertEnds(th)

ThreadRemovesFile == \E th \in 1..MaxThreads : RemoveFileBegins(th) \/ RemoveFileSymbol(th)

NextSymbols ==
    \/ ThreadInserts
    \/ ThreadRemovesFile

SpecSymbols == InitSymbols /\ [][NextSymbols]_vars

\* one caller: every call of the SymbolTable returns before the next is made;
\* threads holds the call that returned last
InitTable ==
    /\ InitIdleService
    /\ event_rx = <<>> /\ notified = None /\ diffOf = None /\ emitted = <<>> /\ graphCalls = NoCalls
    /\ symtab = [NoSymbols EXCEPT !.threads = <<IdleThread>>]
    /\ extracted = NoExtracted /\ txn = NoTxn
    /\ socket = NoSocket
    /\ pool = NoPool /\ workers = <<>> /\ callers = <<>>

TableInsert ==
    /\ symtab.calls < MaxTableCalls
    /\ \E name \in SymbolNames, id \in 0..MaxSymbolId, file \in SymbolFiles :
           symtab' = [table |-> insert(symtab.table, name, id, file),
                      calls |-> symtab.calls + 1,
                      threads |-> <<[IdleThread EXCEPT !.pc = "insert", !.name = name,
                                                       !.id = id, !.file = file]>>]
    /\ UNCHANGED symbolsFrame

TableRemoveFile ==
    /\ symtab.calls < MaxTableCalls
    /\ \E file \in SymbolFiles :
           symtab' = [table |-> remove_file(symtab.table, file),
                      calls |-> symtab.calls + 1,
                      threads |-> <<[IdleThread EXCEPT !.pc = "remove_file", !.file = file,
                                        !.names = MapGet(symtab.table.file_symbols, file)]>>]
    /\ UNCHANGED symbolsFrame

NextTable ==
    \/ TableInsert
    \/ TableRemoveFile

SpecTable == InitTable /\ [][NextTable]_vars

----------------------------------------------------------------------------
(* The order of the updates: events are numbered as they arrive, and the   *)
(* nodes each processed event extracted are recorded for its path.         *)

OrderPaths == {p \in Paths : is_code_file(p)}

InitOrder ==
    /\ InitIdleService
    /\ event_rx = <<>> /\ notified = None /\ diffOf = None /\ emitted = <<>> /\ graphCalls = NoCalls
    /\ symtab = NoSymbols /\ extracted = NoExtracted /\ txn = NoTxn
    /\ socket = NoSocket
    /\ pool = NoPool /\ workers = <<>> /\ callers = <<>>

orderFrame == <<notified, diffOf, emitted, graphCalls, symtab, txn, socket, pool, workers, callers>>

\* handle_notify_event sends a watch event
EventArrives ==
    /\ Len(event_rx) < MaxOrderQueued /\ extracted.arrivals < MaxArrivals
    /\ \E kind \in {"Modified", "Removed"}, path \in OrderPaths :
           event_rx' = Append(event_rx, [kind |-> kind, path |-> path, burst |-> FALSE,
                                         no |-> extracted.arrivals + 1])
    /\ extracted' = [extracted EXCEPT !.arrivals = @ + 1]
    /\ UNCHANGED <<serviceVars, orderFrame>>

\* process_events takes Modified(path) and handle_file_change returns
ModifiedProcessed ==
    /\ event_rx # <<>>
    /\ \E r \in {recv_event(event_rx)} :
           /\ r.event.kind = "Modified"
           /\ event_rx' = r.rest
           /\ \E outcome \in Outcomes(r.event.path) :
                  /\ FileChange(r.event.path, outcome)
                  /\ extracted' = [extracted EXCEPT
                         !.taken = r.event.no,
                         !.of = IF outcome.tag = "ok" /\ ~panicked'
                                THEN MapInsert(@, r.event.path, outcome.result.nodes) ELSE @]
    /\ UNCHANGED orderFrame

\* process_events takes Removed(path) and handle_file_removal returns
RemovedProcessed ==
    /\ event_rx # <<>>
    /\ \E r \in {recv_event(event_rx)} :
           /\ r.event.kind = "Removed"
           /\ event_rx' = r.rest
           /\ FileRemoval(r.event.path)
           /\ extracted' = [extracted EXCEPT !.taken = r.event.no,
                                              !.of = MapRemove(@, r.event.path)]
    /\ UNCHANGED orderFrame

NextOrder ==
    \/ EventArrives
    \/ ModifiedProcessed
    \/ RemovedProcessed

SpecOrder == InitOrder /\ [][NextOrder]_vars

----------------------------------------------------------------------------
(* The graph lock: one update of the watcher followed statement by         *)
(* statement, next to a reader that takes the read lock to build a         *)
(* snapshot (websocket.rs:69, handlers.rs:60).                             *)

\* self.graph is a tokio RwLock: a read guard is granted while no write
\* guard is out, a write guard while no guard is out
read_granted_during_write(lock) == TRUE

read_granted(lock) == ~lock.writer

write_granted(lock) == ~lock.writer /\ lock.readers = 0

\* serve walks the root before it builds the server state and spawns the
\* watcher over the same graph
ServedGraphs == {walk_filesystem(Root, l) : l \in SeqsUpTo(Paths, MaxWalkFiles)}

InitLocks ==
    /\ graph \in ServedGraphs
    /\ file_to_nodes = EmptyMap
    /\ file_to_edges = EmptyMap
    /\ sequence = 0
    /\ ai_provider = FALSE
    /\ budget = Budget_new(TotalTokens)
    /\ pc = "idle"
    /\ pending = NoPending
    /\ panicked = FALSE
    /\ broadcast = <<>>
    /\ sent = 0
    /\ lastEvent = NoEvent
    /\ client = [connected |-> FALSE, nodes |-> EmptyMap, edges |-> EmptyMap]
    /\ event_rx = <<>> /\ notified = None /\ diffOf = None /\ emitted = <<>> /\ graphCalls = NoCalls
    /\ symtab = NoSymbols /\ extracted = NoExtracted /\ txn = NoTxn
    /\ socket = NoSocket
    /\ pool = NoPool /\ workers = <<>> /\ callers = <<>>

locksFrame == <<ai_provider, budget, pc, pending, lastEvent, event_rx, notified, diffOf, emitted,
                graphCalls, symtab, extracted, socket, pool, workers, callers>>

\* handle_file_change read the file and extracted it, and has read the
\* file's old ids from the tracking maps
FileChangeBegins ==
    /\ txn.pc = "idle" /\ ~panicked /\ sequence < MaxUpdates
    /\ \E path \in OrderPaths : \E result \in ExtractionResults(path) :
           txn' = [txn EXCEPT !.pc = "write", !.kind = "change", !.path = path,
                              !.todo = result,
                              !.old_nodes = MapGet(file_to_nodes, path),
                              !.old_edges = MapGet(file_to_edges, path),
                              !.added_nodes = <<>>, !.added_edges = <<>>,
                              !.from = sequence]
    /\ UNCHANGED <<graph, file_to_nodes, file_to_edges, sequence, panicked, broadcast, sent,
                   client, locksFrame>>

\* handle_file_removal has read nodes_to_remove and edges_to_remove
FileRemovalBegins ==
    /\ txn.pc = "idle" /\ ~panicked /\ sequence < MaxUpdates
    /\ \E path \in OrderPaths :
           txn' = [txn EXCEPT !.pc = "write", !.kind = "removal", !.path = path,
                              !.todo = EmptyExtraction,
                              !.old_nodes = MapGet(file_to_nodes, path),
                              !.old_edges = MapGet(file_to_edges, path),
                              !.added_nodes = <<>>, !.added_edges = <<>>,
                              !.from = sequence]
    /\ UNCHANGED <<graph, file_to_nodes, file_to_edges, sequence, panicked, broadcast, sent,
                   client, locksFrame>>

\* `let mut graph = self.graph.write().await`
WriteLockAcquired ==
    /\ txn.pc = "write" /\ write_granted(txn.lock)
    /\ txn' = [txn EXCEPT !.lock.writer = TRUE, !.pc = "remove_edges", !.before = graph]
    /\ UNCHANGED <<graph, file_to_nodes, file_to_edges, sequence, panicked, broadcast, sent,
                   client, locksFrame>>

\* the loop over the old edge ids
OldEdgesRemoved ==
    /\ txn.pc = "remove_edges"
    /\ graph' = remove_edges(graph, txn.old_edges)
    /\ txn' = [txn EXCEPT !.pc = "remove_nodes"]
    /\ UNCHANGED <<file_to_nodes, file_to_edges, sequence, panicked, broadcast, sent,
                   client, locksFrame>>

\* the loop over the old node ids; the removal handler drops the guard next
OldNodesRemoved ==
    /\ txn.pc = "remove_nodes"
    /\ graph' = remove_nodes(graph, txn.old_nodes)
    /\ txn' = [txn EXCEPT !.pc = IF txn.kind = "removal" THEN "drop" ELSE "add_nodes"]
    /\ UNCHANGED <<file_to_nodes, file_to_edges, sequence, panicked, broadcast, sent,
                   client, locksFrame>>

\* the loop over extraction_result.nodes
NewNodesAdded ==
    /\ txn.pc = "add_nodes"
    /\ \E r \in {add_nodes(graph, txn.todo.nodes, <<>>)} :
           /\ graph' = r.graph
           /\ txn' = [txn EXCEPT !.pc = "add_edges", !.added_nodes = r.added,
                                 !.todo.nodes = <<>>]
    /\ UNCHANGED <<file_to_nodes, file_to_edges, sequence, panicked, broadcast, sent,
                   client, locksFrame>>

\* the loop over extraction_result.edges; a panic of add_edge unwinds
\* through the guard, which releases the lock, and ends the watcher task
NewEdgesAdded ==
    /\ txn.pc = "add_edges"
    /\ \E r \in {add_edges(graph, txn.todo.edges, <<>>)} :
           /\ graph' = r.graph
           /\ panicked' = r.panicked
           /\ txn' = IF r.panicked
                     THEN [txn EXCEPT !.pc = "aborted", !.lock.writer = FALSE,
                                      !.added_edges = r.added]
                     ELSE [txn EXCEPT !.pc = "drop", !.added_edges = r.added,
                                      !.todo.edges = <<>>]
    /\ UNCHANGED <<file_to_nodes, file_to_edges, sequence, broadcast, sent,
                   client, locksFrame>>

\* `drop(graph)`
GuardDropped ==
    /\ txn.pc = "drop"
    /\ txn' = [txn EXCEPT !.lock.writer = FALSE, !.pc = "track"]
    /\ UNCHANGED <<graph, file_to_nodes, file_to_edges, sequence, panicked, broadcast, sent,
                   client, locksFrame>>

\* the two tracking maps are written, each under its own lock
TrackingUpdated ==
    /\ txn.pc = "track"
    /\ file_to_nodes' = IF txn.kind = "removal" THEN MapRemove(file_to_nodes, txn.path)
                        ELSE MapInsert(file_to_nodes, txn.path, Ids(txn.added_nodes))
    /\ file_to_edges' = IF txn.kind = "removal" THEN MapRemove(file_to_edges, txn.path)
                        ELSE MapInsert(file_to_edges, txn.path, Ids(txn.added_edges))
    /\ txn' = [txn EXCEPT !.pc = "sequence"]
    /\ UNCHANGED <<graph, sequence, panicked, broadcast, sent, client, locksFrame>>

\* the diff is built, then `self.diff_engine.write().await` and compute_diff
SequenceAllocated ==
    /\ txn.pc = "sequence"
    /\ sequence' = compute_diff(sequence)
    /\ txn' = [txn EXCEPT !.pc = "broadcast",
                  !.diff = [GraphDiff_new(0) EXCEPT
                               !.added_nodes = txn.added_nodes,
                               !.removed_nodes = txn.old_nodes,
                               !.added_edges = txn.added_edges,
                               !.removed_edges = txn.old_edges,
                               !.sequence = IF txn.kind = "removal" THEN 0 ELSE sequence + 1]]
    /\ UNCHANGED <<graph, file_to_nodes, file_to_edges, panicked, broadcast, sent,
                   client, locksFrame>>

\* the handler sends the diff and returns
DiffBroadcast ==
    /\ txn.pc = "broadcast"
    /\ broadcast' = send(broadcast, graph_diff_message(txn.diff))
    /\ sent' = sent + 1
    /\ client' = deliver(client, Some(txn.diff))
    /\ txn' = [txn EXCEPT !.pc = "idle"]
    /\ UNCHANGED <<graph, file_to_nodes, file_to_edges, sequence, panicked, locksFrame>>

\* the state a reader would find: old entities of the file gone from the
\* graph, entities of the new extraction still to be inserted
Replacing ==
    /\ txn.pc \in {"remove_nodes", "add_nodes", "add_edges", "aborted"}
    /\ graph # txn.before
    /\ txn.todo # EmptyExtraction

\* the graph holds the whole update and the tracking maps or the counter
\* are still to follow
Replaced == txn.pc \in {"drop", "track", "sequence"} /\ graph # txn.before

\* `let graph = state.graph.read().await`
ReadLockAcquired ==
    /\ txn.lock.readers = 0 /\ read_granted(txn.lock)
    /\ txn' = [txn EXCEPT !.lock.readers = 1]
    /\ UNCHANGED <<graph, file_to_nodes, file_to_edges, sequence, panicked, broadcast, sent,
                   client, locksFrame>>

\* graph_to_graph_data copies the nodes and edges, and the guard goes out of
\* scope
SnapshotRead ==
    /\ txn.lock.readers = 1
    /\ txn' = [txn EXCEPT !.lock.readers = 0,
                  !.seen = Some([data |-> graph_to_graph_data(graph),
                                 replacing |-> Replacing,
                                 pc |-> txn.pc])]
    /\ UNCHANGED <<graph, file_to_nodes, file_to_edges, sequence, panicked, broadcast, sent,
                   client, locksFrame>>

NextLocks ==
    \/ FileChangeBegins
    \/ FileRemovalBegins
    \/ WriteLockAcquired
    \/ OldEdgesRemoved
    \/ OldNodesRemoved
    \/ NewNodesAdded
    \/ NewEdgesAdded
    \/ GuardDropped
    \/ TrackingUpdated
    \/ SequenceAllocated
    \/ DiffBroadcast
    \/ ReadLockAcquired
    \/ SnapshotRead

SpecLocks == InitLocks /\ [][NextLocks]_vars

\* the points where the update is suspended: the four `.write().await`
SuspensionPoints == {"write", "track", "sequence"}

\* the runtime shuts down and drops the watcher task at an await: the rest
\* of the handler never runs
UpdateCancelled ==
    /\ txn.pc \in SuspensionPoints
    /\ txn' = [txn EXCEPT !.pc = "cancelled",
                          !.before = IF txn.pc = "write" THEN graph ELSE @]
    /\ UNCHANGED <<graph, file_to_nodes, file_to_edges, sequence, panicked, broadcast, sent,
                   client, locksFrame>>

NextCancel ==
    \/ NextLocks
    \/ UpdateCancelled

SpecCancel == InitLocks /\ [][NextCancel]_vars

\* a receiver whose first message is the one after the next
subscribe_late(sock, broadcast_sent) ==
    [sock EXCEPT !.state = "subscribed", !.cursor = broadcast_sent + 1]

\* `let mut rx = state.diff_tx.subscribe()`: the receiver gets the messages
\* sent from now on
subscribe(sock, broadcast_sent) ==
    [sock EXCEPT !.state = "subscribed", !.cursor = broadcast_sent]

\* handle_socket starts: the socket is split and the receiver subscribed
SocketSubscribes ==
    /\ socket.state = "none"
    /\ socket' = subscribe(socket, sent)
    /\ UNCHANGED <<serviceVars, txn, event_rx, notified, diffOf, emitted, graphCalls, symtab,
                   extracted, pool, workers, callers>>

\* graph_to_graph_data under the read lock, and the full_graph message is
\* sent; seen keeps the snapshot and the ids that were live in it
SocketSnapshot ==
    /\ socket.state = "subscribed" /\ read_granted(txn.lock)
    /\ \E sink_ok \in BOOLEAN : socket' = open_socket(graph, socket.cursor, sink_ok)
    /\ txn' = [txn EXCEPT !.seen = Some([data |-> graph_to_graph_data(graph),
                                          replacing |-> Replacing, pc |-> txn.pc,
                                          nodes |-> node_indices(graph),
                                          edges |-> edge_indices(graph)])]
    /\ UNCHANGED <<serviceVars, event_rx, notified, diffOf, emitted, graphCalls, symtab,
                   extracted, pool, workers, callers>>

\* the updates a client connects among
ChangeBeginsDuringConnect == sequence < MaxConnectUpdates /\ FileChangeBegins

RemovalBeginsDuringConnect == sequence < MaxConnectUpdates /\ FileRemovalBegins

NextConnect ==
    \/ ChangeBeginsDuringConnect
    \/ RemovalBeginsDuringConnect
    \/ WriteLockAcquired
    \/ OldEdgesRemoved
    \/ OldNodesRemoved
    \/ NewNodesAdded
    \/ NewEdgesAdded
    \/ GuardDropped
    \/ TrackingUpdated
    \/ SequenceAllocated
    \/ DiffBroadcast
    \/ SocketSubscribes
    \/ SocketSnapshot
    \/ SocketRecv
    \/ SocketClose

SpecConnect == InitLocks /\ [][NextConnect]_vars

----------------------------------------------------------------------------
(* The parser pool, its callers and its worker threads *)

\* ParserPool::new(num_workers), and the callers that will use the pool
InitPool ==
    /\ InitIdleService
    /\ event_rx = <<>> /\ notified = None /\ diffOf = None /\ emitted = <<>> /\ graphCalls = NoCalls
    /\ symtab = NoSymbols /\ extracted = NoExtracted /\ txn = NoTxn
    /\ socket = NoSocket
    /\ \E num_workers \in 0..MaxWorkers :
           /\ pool = ParserPool_new(num_workers).pool
           /\ workers = ParserPool_new(num_workers).workers
    /\ callers = [c \in 1..MaxCallers |-> NewCaller]

notPoolVars == <<serviceVars, event_rx, notified, diffOf, emitted, graphCalls, symtab, extracted, txn, socket>>

\* impl Clone for ParserPool
ClonePool ==
    /\ pool.handles > 0 /\ pool.handles < MaxHandles
    /\ pool' = [pool EXCEPT !.handles = @ + 1]
    /\ UNCHANGED <<workers, callers, notPoolVars>>

\* a ParserPool value is dropped; parse_blocking borrows the one it was
\* called on until it returns
DropPool ==
    /\ pool.handles > 0
    /\ IF pool.handles > 1 THEN TRUE
       ELSE \A c \in DOMAIN callers :
                ~(callers[c].api = "parse_blocking" /\ callers[c].pc = "waiting")
    /\ pool' = [pool EXCEPT !.handles = @ - 1]
    /\ UNCHANGED <<workers, callers, notPoolVars>>

\* parse_blocking or parse is called on a handle
Submit ==
    \E c \in DOMAIN callers, api \in {"parse", "parse_blocking"} :
        /\ callers[c].pc = "start" /\ pool.handles > 0
        /\ \E r \in {submit(pool, workers, callers[c], c, api)} :
               /\ pool' = r.pool
               /\ callers' = [callers EXCEPT ![c] = r.caller]
        /\ UNCHANGED <<workers, notPoolVars>>

\* response_receiver.recv() returns: the reply, or Err once the
\* response_sender is gone without one
ReceiveReply ==
    \E c \in DOMAIN callers :
        /\ callers[c].pc = "waiting"
        /\ IF callers[c].replies # <<>> THEN TRUE ELSE request_dropped(pool, workers, c)
        /\ callers' = [callers EXCEPT
               ![c].pc = "done",
               ![c].result = IF callers[c].replies # <<>>
                             THEN Some(callers[c].replies[1].value)
                             ELSE Some("WorkerDied")]
        /\ UNCHANGED <<pool, workers, notPoolVars>>

\* a caller abandons its request by dropping its reply handle
DropReplyHandle ==
    \E c \in DOMAIN callers :
        /\ callers[c].pc = "waiting"
        /\ callers' = [callers EXCEPT ![c].pc = "dropped"]
        /\ UNCHANGED <<pool, workers, notPoolVars>>

\* worker_thread: receiver.lock().unwrap()
Lock(w) ==
    /\ w \in DOMAIN workers
    /\ workers[w].pc = "lock" /\ pool.lock = None
    /\ pool' = [pool EXCEPT !.lock = Some(w)]
    /\ workers' = [workers EXCEPT ![w].pc = "recv"]
    /\ UNCHANGED <<callers, notPoolVars>>

\* worker_thread: recv() returns to the holder of the lock
Recv(w) ==
    /\ w \in DOMAIN workers
    /\ workers[w].pc = "recv"
    /\ \E r \in {recv(pool, callers)} :
           /\ r.tag # "Blocked"
           /\ IF r.tag = "Ok"
              THEN /\ pool' = [pool EXCEPT !.queue = dequeue(@), !.lock = unlock(@)]
                   /\ workers' = [workers EXCEPT ![w] = [pc |-> "serve", request |-> r.req]]
                   /\ callers' = [callers EXCEPT ![r.req[1].request].takers = @ \cup {w}]
              ELSE /\ pool' = [pool EXCEPT !.lock = unlock(@)]
                   /\ workers' = [workers EXCEPT ![w].pc = "exited"]
                   /\ UNCHANGED callers
    /\ UNCHANGED notPoolVars

\* worker_thread: set_language, parse, and the reply
Serve(w) ==
    /\ w \in DOMAIN workers
    /\ workers[w].pc = "serve"
    /\ \E outcome \in WorkerOutcomes :
         \E r \in {respond(callers, workers[w].request[1], w, outcome)} :
           /\ callers' = r.callers
           /\ workers' = [workers EXCEPT
                  ![w] = [pc |-> next_pc(outcome, r.delivered), request |-> None]]
    /\ UNCHANGED <<pool, notPoolVars>>

WorkerLocks == \E w \in 1..MaxWorkers : Lock(w)

WorkerReceives == \E w \in 1..MaxWorkers : Recv(w)

WorkerServes == \E w \in 1..MaxWorkers : Serve(w)

NextPool ==
    \/ ClonePool
    \/ DropPool
    \/ Submit
    \/ ReceiveReply
    \/ DropReplyHandle
    \/ WorkerLocks
    \/ WorkerReceives
    \/ WorkerServes

\* threads are scheduled, and a free mutex is given to a thread waiting for it
SpecPool ==
    /\ InitPool
    /\ [][NextPool]_vars
    /\ \A w \in 1..MaxWorkers : WF_vars(Lock(w)) /\ WF_vars(Recv(w)) /\ WF_vars(Serve(w))

----------------------------------------------------------------------------
(* Properties *)

LiveEdges == {graph.edges[i + 1][1] : i \in edge_indices(graph)}

LiveNodes == {graph.nodes[i + 1][1] : i \in node_indices(graph)}

LastDiff(channel) == channel[Len(channel)].diff

\* the ids a per-file index holds that are no longer edges of the graph
StaleEdgeIds == {id \in UNION {Range(file_to_edges[p]) : p \in DOMAIN file_to_edges} :
                    edge(graph, id) = None}

\* C1: while the updater runs, after any events (AI enrichment or not),
\* every live edge of the graph has a live source and a live target.
C1_EdgesHaveLiveEndpoints ==
    ~panicked =>
        \A e \in LiveEdges : node(graph, e.source) # None /\ node(graph, e.target) # None

\* a file was removed, a node removal took an edge of another file with it,
\* and an edge is still live
C1_Witness ==
    /\ ~panicked
    /\ lastEvent.kind = "Removed"
    /\ StaleEdgeIds # {}
    /\ LiveEdges # {}

\* C2: a diff sent on diff_tx carries a greater sequence number than the
\* diff sent before it, removal diffs included.
C2_DiffSequenceIncreases ==
    [][(sent' > sent /\ sent > 0)
          => LastDiff(broadcast').sequence > LastDiff(broadcast).sequence]_vars

\* the node ids of the graph whose value has the given file_path
NodesOfFile(path) == {i \in node_indices(graph) : graph.nodes[i + 1][1].file_path = path}

\* the handler of the last event ran to its end on a code file
EventProcessed ==
    /\ pc = "idle" /\ ~panicked
    /\ lastEvent.kind \in {"Changed", "Removed"}
    /\ lastEvent.outcome = "ok"

\* C3: after an event for file f is processed, file_to_nodes[f] is exactly
\* the set of nodes of the graph whose file_path is f.
C3_PerFileClosure ==
    EventProcessed =>
        Range(MapGet(file_to_nodes, lastEvent.path)) = NodesOfFile(lastEvent.path)

\* C4: after Removed(f) is processed, no node and no edge of the graph has
\* file_path f.
C4_RemovalComplete ==
    (EventProcessed /\ lastEvent.kind = "Removed") =>
        /\ NodesOfFile(lastEvent.path) = {}
        /\ \A e \in LiveEdges : e.file_path # Some(lastEvent.path)

Strip(v) == [f \in DOMAIN v \ {"id"} |-> v[f]]

NodeBag(nodes) ==
    LET values == {Strip(nodes[i]) : i \in DOMAIN nodes}
    IN  [v \in values |-> Cardinality({i \in DOMAIN nodes : Strip(nodes[i]) = v})]

EdgeShape(nodes, e) ==
    [value |-> [f \in DOMAIN e \ {"id", "source", "target"} |-> e[f]],
     source |-> IF e.source \in DOMAIN nodes THEN Some(Strip(nodes[e.source])) ELSE None,
     target |-> IF e.target \in DOMAIN nodes THEN Some(Strip(nodes[e.target])) ELSE None]

EdgeBag(nodes, edges) ==
    LET shapes == {EdgeShape(nodes, edges[i]) : i \in DOMAIN edges}
    IN  [v \in shapes |->
            Cardinality({i \in DOMAIN edges : EdgeShape(nodes, edges[i]) = v})]

SameGraph(c, g) ==
    LET server == client_snapshot(g)
    IN  /\ NodeBag(c.nodes) = NodeBag(server.nodes)
        /\ EdgeBag(c.nodes, c.edges) = EdgeBag(server.nodes, server.edges)

\* C6: a client that took the full_graph snapshot and applied every
\* graph_diff since holds the server's graph, up to id allocation.
C6_ClientReproducesGraph ==
    (client.connected /\ pc = "idle" /\ ~panicked) => SameGraph(client, graph)

\* C7: the structural diff is on the broadcast channel before the updater
\* waits for the AI provider.
C7_StructuralDiffNotBlockedByAI ==
    pc = "ai" => (broadcast # <<>> /\ LastDiff(broadcast) = pending.diff)

\* the ids of the AI edges a step adds to the graph
NewAIEdgeIds ==
    {i \in edge_indices(graph') :
        /\ graph'.edges[i + 1][1].edge_source = "AI"
        /\ edge(graph, i) # graph'.edges[i + 1]}

\* C8: the AI edges added to the graph are announced in a diff of their
\* own: additions only, with a sequence number above the structural diff's.
C8_AIEdgesAnnounced ==
    [][NewAIEdgeIds # {} =>
          /\ sent' > sent
          /\ LET d == LastDiff(broadcast')
             IN  /\ NewAIEdgeIds \subseteq Range(Ids(d.added_edges))
                 /\ d.added_nodes = <<>>
                 /\ d.removed_nodes = <<>>
                 /\ d.removed_edges = <<>>
                 /\ d.sequence > pending.diff.sequence]_vars

\* C9: no AI edge of the graph has a confidence below auto_accept_threshold.
C9_AIEdgesMeetThreshold ==
    \A e \in LiveEdges : e.edge_source = "AI" => should_auto_accept(budget, e.confidence)

\* a step in which perform_ai_analysis calls the provider
ProviderCalled == pc' = "ai" /\ (pc = "idle" \/ pending'.todo # pending.todo)

\* C10: while the budget cannot cover the estimate of a request, the
\* updater makes no provider call.
C10_ExhaustedBudgetSkipsProvider ==
    [][~has_budget(budget, estimate_tokens(PromptLength)) => ~ProviderCalled]_vars

C12_ClosedPoolRejects ==
    [][\A c \in DOMAIN callers :
          (receiver_dropped(workers) /\ callers[c].pc = "start" /\ callers'[c].pc # "start")
              => /\ callers'[c].pc = "done"
                 /\ callers'[c].result = Some("PoolShutDown")
                 /\ pool'.queue = pool.queue]_vars

\* both a parse and a parse_blocking call were refused by a closed pool
C12_Witness ==
    /\ receiver_dropped(workers)
    /\ \E c, d \in DOMAIN callers :
           /\ callers[c].api = "parse" /\ callers[c].result = Some("PoolShutDown")
           /\ callers[d].api = "parse_blocking" /\ callers[d].result = Some("PoolShutDown")

\* the channel has no sender left and holds no request
ChannelClosed == senders(pool, callers) = 0 /\ pool.queue = <<>>

\* C13: a worker that has replied to a request, whatever the outcome and
\* whether or not the reply could be delivered, is back at the head of its
\* loop; a worker exits only when the request channel is closed.
C13_WorkerSurvivesFailures ==
    [][\A w \in DOMAIN workers :
          /\ (workers[w].pc = "serve" /\ workers'[w].pc # "serve") => workers'[w].pc = "lock"
          /\ (workers[w].pc # "exited" /\ workers'[w].pc = "exited") => ChannelClosed]_vars

\* a worker whose set_language failed for one request, and whose reply to
\* another could not be sent because the caller had dropped its handle, is
\* in recv again
C13_Witness ==
    \E w \in DOMAIN workers :
        /\ workers[w].pc = "recv"
        /\ \E c, d \in DOMAIN callers :
               /\ callers[c].result = Some("SetLanguageError")
               /\ callers[c].replies[1].from = w
               /\ callers[d].pc = "dropped"
               /\ callers[d].takers = {w}
               /\ callers[d].replies = <<>>

\* at most one worker took each request, and a reply channel holds at most
\* one reply, to its caller's request, by the worker that took it
RepliesAreExclusive ==
    \A c \in DOMAIN callers :
        /\ Cardinality(callers[c].takers) <= 1
        /\ Len(callers[c].replies) <= 1
        /\ \A i \in 1..Len(callers[c].replies) :
               /\ callers[c].replies[i].request = c
               /\ callers[c].replies[i].from \in callers[c].takers
        /\ (callers[c].pc = "done" /\ callers[c].result # Some("PoolShutDown"))
               => (Len(callers[c].replies) = 1
                   /\ callers[c].result = Some(callers[c].replies[1].value))

\* C14: every request is taken by at most one worker, at most one reply is
\* sent into a caller's reply channel and it is the reply to that caller's
\* request by the worker that took it; a caller that was replied to got
\* that reply, and a caller that waits is replied to.
C14_OneWorkerOneReply ==
    /\ []RepliesAreExclusive
    /\ \A c \in 1..MaxCallers :
           (callers[c].pc = "waiting") ~>
               (callers[c].pc # "waiting" \/ Len(callers[c].replies) = 1)

\* two callers were each replied to, by different workers
C14_Witness ==
    \E c, d \in DOMAIN callers :
        /\ callers[c].pc = "done" /\ callers[d].pc = "done"
        /\ Len(callers[c].replies) = 1 /\ Len(callers[d].replies) = 1
        /\ callers[c].replies[1].from # callers[d].replies[1].from

AllWorkersExited == \A w \in DOMAIN workers : workers[w].pc = "exited"

\* C15: once no sender of the request channel is left, every worker exits.
C15_WorkersExitOnClose ==
    (senders(pool, callers) = 0) ~> AllWorkersExited

\* every handle was dropped while one worker held the lock and the others
\* waited for it, and all of them have exited
C15_Witness ==
    /\ Len(workers) = MaxWorkers
    /\ senders(pool, callers) = 0
    /\ AllWorkersExited
    /\ \E c \in DOMAIN callers : callers[c].pc = "done"

\* C16: a notification yields no watch event exactly when a component of
\* its path is one of target, .git, node_modules, .canopy.
C16_IgnoredExactlyExcluded ==
    notified # None =>
        (~notified[1].emitted <=>
            \E i \in 1..Len(components(notified[1].path)) :
                components(notified[1].path)[i]
                    \in {"target", ".git", "node_modules", ".canopy"})

\* the step in which process_events takes the event at the head of event_rx
EventTaken == event_rx # <<>> /\ event_rx' = Tail(event_rx)

\* C17: the updater rejects an event, changing nothing and sending no diff,
\* exactly when the extension of its path is not a supported one.
C17_RejectedExactlyUnsupported ==
    [][EventTaken =>
          ((/\ lastEvent'.outcome = "not_code"
            /\ UNCHANGED <<graph, file_to_nodes, file_to_edges, sequence, broadcast, sent>>)
           <=> Head(event_rx).path.ext \notin
                   {Some(x) : x \in {"rs", "ts", "tsx", "js", "jsx", "mjs", "cjs", "py", "go",
                                     "java", "c", "h", "cpp", "cc", "cxx", "hpp", "hh"}})]_vars

\* C18: once a diff was sent for Modified(p), a Modified(p) that arrived
\* within the same coalescing window yields no second diff.
C18_ModifiesCoalesce ==
    [][(/\ EventTaken
        /\ Head(event_rx).kind = "Modified" /\ Head(event_rx).burst
        /\ diffOf # None
        /\ diffOf[1].kind = "Modified" /\ diffOf[1].path = Head(event_rx).path)
          => sent' = sent]_vars

\* C19: a connection that was set up has been sent exactly one full_graph
\* message, and it was the first message sent.
C19_OneFullGraphFirst ==
    socket.state = "open" =>
        /\ socket.log # <<>> /\ socket.log[1] = "full_graph"
        /\ \A i \in 2..Len(socket.log) : socket.log[i] = "graph_diff"

\* C20: no graph_diff is sent to a connection that lost diffs to Lagged
\* and was not sent a full graph since.
C20_NoSilentResume ==
    [][(socket.state = "open" /\ socket'.log = Append(socket.log, "graph_diff"))
          => socket.missed = 0]_vars

EarlierNodeIds == node_indices(graph) \cup graphCalls.removed_nodes

EarlierEdgeIds == edge_indices(graph) \cup graphCalls.removed_edges

\* C22: the id add_node or add_edge returns is above every id handed out
\* before; in particular it is not the id of a removed node or edge.
C22_IdsNeverReused ==
    [][/\ graphCalls'.last.op = "add_node" /\ graph' # graph
          => \A id \in EarlierNodeIds : graphCalls'.last.id > id
       /\ graphCalls'.last.op = "add_edge" /\ graph' # graph
          => \A id \in EarlierEdgeIds : graphCalls'.last.id > id]_vars

\* the edges of g that touch node n
EdgesTouching(g, n) ==
    {e \in edge_indices(g) : g.edges[e + 1][1].source = n \/ g.edges[e + 1][1].target = n}

\* C23: remove_node(n) of a live n leaves n absent and no edge touching n,
\* and every other node and every edge that did not touch n as it was.
C23_RemoveNodeCascades ==
    [][(graphCalls'.last.op = "remove_node" /\ graph' # graph) =>
          LET n == graphCalls'.last.id
          IN  /\ node(graph', n) = None
              /\ EdgesTouching(graph', n) = {}
              /\ node_indices(graph') = node_indices(graph) \ {n}
              /\ \A m \in node_indices(graph') : node(graph', m) = node(graph, m)
              /\ edge_indices(graph') = edge_indices(graph) \ EdgesTouching(graph, n)
              /\ \A e \in edge_indices(graph') : edge(graph', e) = edge(graph, e)]_vars

\* remove_node took an incoming and an outgoing edge with the node, and
\* two other nodes stayed
C23_Witness ==
    /\ graphCalls.last.op = "remove_node" /\ graphCalls.last.ret # None
    /\ Cardinality(graphCalls.last.cascade) = 2
    /\ node_count(graph) = 2

\* C26: the response of GET /api/graph lists every live node of the graph.
C26_SnapshotIsComplete ==
    graphCalls.last.op = "get_graph" =>
        LET response == graphCalls.last.ret[1]
        IN  /\ Len(response.nodes) = node_count(graph)
            /\ \A i \in node_indices(graph) :
                   \E k \in 1..Len(response.nodes) :
                       response.nodes[k] = NodeResponse(node(graph, i)[1])

\* the qualified name an extracted node is entered under
qualified_name(n) == <<n.file_path, n.kind>>

\* C24: after a successful update of f the symbol table holds exactly the
\* qualified names of the nodes tracked for f, each mapped to the id of its
\* node; after Removed(f) it holds no symbol of f.
C24_SymbolTableFollowsUpdates ==
    EventProcessed =>
        LET f == lastEvent.path
            ids == MapGet(file_to_nodes, f)
        IN  /\ symbols_in_file(symtab.table, f) = ids
            /\ \A i \in 1..Len(ids) :
                   lookup(symtab.table, qualified_name(node(graph, ids[i])[1])) = Some(ids[i])

\* every name the reverse index lists under a file is in the name-to-id map
ReverseIndexConsistent ==
    \A file \in DOMAIN symtab.table.file_symbols :
        \A i \in 1..Len(symtab.table.file_symbols[file]) :
            lookup(symtab.table, symtab.table.file_symbols[file][i]) # None

\* no call of the table is under way
Quiescent == \A th \in DOMAIN symtab.threads : symtab.threads[th].pc = "idle"

\* C25: whenever no call is under way the reverse index is consistent with
\* the name-to-id map, and an insert that overlapped no remove_file leaves
\* its name found by lookup.
C25_ConcurrentCallsStayConsistent ==
    /\ [](Quiescent => ReverseIndexConsistent)
    /\ [][\A th \in DOMAIN symtab.threads :
             (/\ symtab.threads[th].pc = "insert_file_symbols"
              /\ symtab'.threads[th].pc = "idle"
              /\ symtab.threads[th].undisturbed)
                => lookup(symtab'.table, symtab.threads[th].name) # None]_vars

\* C27: every edge of the graph has a confidence within [0, 1]; a Structural
\* edge has exactly 1.0 and a Heuristic edge at least 0.8.
C27_ConfidenceBounds ==
    \A e \in LiveEdges :
        /\ e.confidence \in 0..100
        /\ e.edge_source = "Structural" => e.confidence = 100
        /\ e.edge_source = "Heuristic" => e.confidence >= 80

\* the nodes the graph holds at the ids tracked for path
TrackedNodes(path) ==
    [i \in 1..Len(MapGet(file_to_nodes, path)) |-> node(graph, MapGet(file_to_nodes, path)[i])]

\* C28: events are taken in the order they arrived, one after the other,
\* and between two events the nodes tracked for each file are those the
\* last processed event for the file extracted.
C28_UpdatesInArrivalOrder ==
    /\ [][extracted'.taken # extracted.taken => extracted'.taken = extracted.taken + 1]_vars
    /\ []((pc = "idle" /\ ~panicked) =>
             \A path \in OrderPaths :
                 TrackedNodes(path) =
                     [i \in 1..Len(MapGet(extracted.of, path)) |->
                         Some(MapGet(extracted.of, path)[i])])

\* three events were processed, two of them for the same file, and both
\* files are tracked with a node
C28_Witness ==
    /\ extracted.taken = 3 /\ sequence = 3 /\ ~panicked
    /\ \A path \in OrderPaths : MapGet(file_to_nodes, path) # <<>>

C30_SequenceAllocatedUnderLock ==
    (~txn.lock.writer /\ Replaced) => sequence > txn.from

\* C31: an update cancelled at a suspension point has either not touched
\* the graph, or the tracking maps hold for its file the ids of what it
\* inserted (no entry after a removal)
C31_CancellationAllOrNothing ==
    txn.pc = "cancelled" =>
        \/ graph = txn.before
        \/ /\ MapGet(file_to_nodes, txn.path) =
                  (IF txn.kind = "removal" THEN <<>> ELSE Ids(txn.added_nodes))
           /\ MapGet(file_to_edges, txn.path) =
                  (IF txn.kind = "removal" THEN <<>> ELSE Ids(txn.added_edges))

\* C32: an import edge recorded for a file that has nodes joins nodes of
\* that file: its placeholder endpoints were replaced by ids the same
\* extraction was given
C32_ImportEdgesPatched ==
    \A path \in DOMAIN file_to_edges :
        \A i \in 1..Len(file_to_edges[path]) :
            \A e \in Range(edge(graph, file_to_edges[path][i])) :
                (e.kind = "Imports" /\ e.file_path = Some(path)
                     /\ MapGet(file_to_nodes, path) # <<>>) =>
                    /\ e.source \in Range(MapGet(file_to_nodes, path))
                    /\ e.target \in Range(MapGet(file_to_nodes, path))

\* C33: no edge, extracted or inferred, whose endpoint is not a live node
\* aborts the updater
C33_DanglingEdgeNeverAborts == panicked = FALSE

\* C34: a change of a file that had no tracked nodes or edges and whose new
\* extraction has none sends no diff and leaves the sequence where it was
C34_EmptyChangeIsSilent ==
    [][(/\ lastEvent'.kind = "Changed" /\ lastEvent'.outcome = "ok" /\ ~panicked'
        /\ MapGet(file_to_nodes, lastEvent'.path) = <<>>
        /\ MapGet(file_to_edges, lastEvent'.path) = <<>>
        /\ MapGet(file_to_nodes', lastEvent'.path) = <<>>
        /\ MapGet(file_to_edges', lastEvent'.path) = <<>>)
           => (sequence' = sequence /\ sent' = sent)]_vars

\* the sources of the live Contains edges into the nodes of S
ContainsParents(g, S) ==
    {e.source : e \in {x \in Range(all_edges(g)) : x.kind = "Contains" /\ x.target \in S}}

\* the nodes from which a node of S is reached by Contains edges
RECURSIVE ContainsClosure(_, _)
ContainsClosure(g, S) ==
    LET T == S \cup ContainsParents(g, S)
    IN  IF T = S THEN S ELSE ContainsClosure(g, T)

\* C35: ancestors(n) returns exactly the nodes from which n is reached by
\* one or more Contains edges, on every graph, cyclic ones included
C35_AncestorsIsContainsClosure ==
    graphCalls.last.op = "ancestors" =>
        graphCalls.last.ret =
            Some(ContainsClosure(graph, ContainsParents(graph, {graphCalls.last.id})))

\* ancestors was called on a node of a Contains cycle that also has an
\* incoming edge of another kind: the node is its own ancestor, and the
\* source of the other edge is not one
C35_Witness ==
    /\ graphCalls.last.op = "ancestors"
    /\ graphCalls.last.id \in graphCalls.last.ret[1]
    /\ Cardinality(graphCalls.last.ret[1]) = 2
    /\ \E e \in Range(all_edges(graph)) :
           /\ e.kind = "Calls" /\ e.target = graphCalls.last.id
           /\ e.source \notin graphCalls.last.ret[1]

\* remove_file(file) has just returned
RemoveFileReturned(file) ==
    /\ symtab'.calls = symtab.calls + 1
    /\ symtab'.threads[1].pc = "remove_file" /\ symtab'.threads[1].file = file

\* the names inserted under the file since it was last removed
NamesOf(t, file) == Range(MapGet(t.file_symbols, file))

\* after remove_file(f), f has no symbols and lookup fails for its names
FileDropped(f) ==
    /\ symbols_in_file(symtab'.table, f) = <<>>
    /\ \A name \in NamesOf(symtab.table, f) : lookup(symtab'.table, name) = None

\* C36 as stated: remove_file(f) drops the symbols of f, and every name
\* inserted under another file g is found as before, by lookup and by
\* symbols_in_file(g)
C36_RemoveFileDropsOnlyThatFile ==
    [][\A f \in SymbolFiles : RemoveFileReturned(f) =>
          /\ FileDropped(f)
          /\ \A g \in SymbolFiles \ {f} :
                 /\ \A name \in NamesOf(symtab.table, g) :
                        lookup(symtab'.table, name) = lookup(symtab.table, name)
                 /\ symbols_in_file(symtab'.table, g) = symbols_in_file(symtab.table, g)]_vars

\* C36 amended: remove_file(f) drops the symbols of f, and every name of
\* another file g that was not also inserted under f is found as before;
\* symbols_in_file(g) is as before when g shares no name with f
C36_RemoveFileDropsOnlyItsNames ==
    [][\A f \in SymbolFiles : RemoveFileReturned(f) =>
          /\ FileDropped(f)
          /\ \A g \in SymbolFiles \ {f} :
                 /\ \A name \in NamesOf(symtab.table, g) \ NamesOf(symtab.table, f) :
                        lookup(symtab'.table, name) = lookup(symtab.table, name)
                 /\ NamesOf(symtab.table, g) \cap NamesOf(symtab.table, f) = {} =>
                        symbols_in_file(symtab'.table, g) = symbols_in_file(symtab.table, g)]_vars

\* remove_file returned for a file that had a name, while the other file
\* keeps a different name that lookup finds
C36_Witness ==
    /\ symtab.threads # <<>> /\ symtab.threads[1].pc = "remove_file"
    /\ symtab.threads[1].names # <<>>
    /\ lookup_each(symtab.table, symtab.threads[1].names) = <<>>
    /\ \E g \in SymbolFiles \ {symtab.threads[1].file} :
           /\ NamesOf(symtab.table, g) # {}
           /\ NamesOf(symtab.table, g) \cap Range(symtab.threads[1].names) = {}
           /\ symbols_in_file(symtab.table, g) # <<>>

\* C37: has_budget(e) answers true exactly when tokens_used + e, taken as
\* a sum of naturals, is at most total_tokens, for all u32 values
C37_HasBudgetExact ==
    \A i \in 1..Len(budget.answer) :
        LET sum == u32_add(budget.tokens_used, budget.asked[1])
        IN  budget.answer[i] =
                (IF ~sum.overflow /\ u32_le(sum.value, budget.total_tokens)
                 THEN "true" ELSE "false")

\* C38: while the updater runs, every id the tracking map lists for a file
\* is the id of a live edge that was inserted for that file
C38_TrackedEdgesLiveAndOwned ==
    panicked \/ \A path \in DOMAIN file_to_edges :
        \A i \in 1..Len(file_to_edges[path]) :
            /\ edge(graph, file_to_edges[path][i]) # None
            /\ \A e \in Range(edge(graph, file_to_edges[path][i])) :
                   e.file_path = Some(path)

\* C39: the id field of every stored node and edge is the id under which
\* the graph returns it
C39_StoredIdsMatch ==
    /\ \A i \in node_indices(graph) : \A n \in Range(node(graph, i)) : n.id = i
    /\ \A j \in edge_indices(graph) : \A e \in Range(edge(graph, j)) : e.id = j

\* the ids a client holds after it applied the diffs to what it had
RECURSIVE Replay(_, _)
Replay(have, msgs) ==
    IF msgs = <<>> THEN have
    ELSE Replay([nodes |-> (have.nodes \ Range(Head(msgs).diff.removed_nodes))
                               \cup Range(Ids(Head(msgs).diff.added_nodes)),
                 edges |-> (have.edges \ Range(Head(msgs).diff.removed_edges))
                               \cup Range(Ids(Head(msgs).diff.added_edges))],
                Tail(msgs))

\* the client has its snapshot and every diff sent so far, and no update
\* is under way
CaughtUp ==
    /\ socket.state = "open" /\ socket.log # <<>> /\ socket.missed = 0
    /\ socket.cursor = sent /\ txn.pc = "idle" /\ txn.seen # None

====
